---- MODULE Spec2Model ----
(***************************************************************************)
(* A model of kitty-smart-tabs: the reconciliation cycle update_tabs of    *)
(* smart_tabs/core.py with the helpers it calls.                           *)
(*                                                                         *)
(* Python strings are sequences of one-character strings, so that          *)
(* rstrip, split, slicing, formatting and sanitising are computed          *)
(* character by character.  Python's None is the empty sequence wherever   *)
(* the code only tests the value for truth (a cwd, a command label).       *)
(***************************************************************************)
EXTENDS Integers, Sequences, FiniteSets, TLC

(***************************************************************************)
(* Strings                                                                 *)
(***************************************************************************)

None == <<>>

\* str.isprintable() of one character: the control characters are not.
ControlChars == {"\n", "\t", "\r"}

isprintable(c) == c \notin ControlChars

\* The characters str.strip() removes.
Whitespace == {" ", "\n", "\t", "\r"}

RECURSIVE rstrip(_, _)
\* s.rstrip(chars): every trailing character that is in chars is removed.
rstrip(s, chars) ==
    IF s # <<>> /\ s[Len(s)] \in chars
    THEN rstrip(SubSeq(s, 1, Len(s) - 1), chars)
    ELSE s

RECURSIVE lstrip(_, _)
lstrip(s, chars) ==
    IF s # <<>> /\ s[1] \in chars THEN lstrip(Tail(s), chars) ELSE s

\* s.strip()
strip(s) == lstrip(rstrip(s, Whitespace), Whitespace)

\* s.startswith(p), s.endswith(p)
startswith(s, p) == Len(p) <= Len(s) /\ SubSeq(s, 1, Len(p)) = p

endswith(s, p) ==
    Len(p) <= Len(s) /\ SubSeq(s, Len(s) - Len(p) + 1, Len(s)) = p

\* s[:k] with Python's rule for a negative k (counted from the end).
SlicePrefix(s, k) ==
    LET stop == IF k < 0 THEN Len(s) + k ELSE k
        n    == IF stop < 0 THEN 0 ELSE IF stop > Len(s) THEN Len(s) ELSE stop
    IN  SubSeq(s, 1, n)

\* s.split('/')[-1]: what follows the last '/', the whole of s without one.
LastSegment(s) ==
    LET slashes == {i \in 1..Len(s) : s[i] = "/"}
    IN  IF slashes = {} THEN s
        ELSE LET last == CHOOSE i \in slashes : \A j \in slashes : j <= i
             IN  SubSeq(s, last + 1, Len(s))

Uppers == <<"A","B","C","D","E","F","G","H","I","J","K","L","M",
            "N","O","P","Q","R","S","T","U","V","W","X","Y","Z">>

Lowers == <<"a","b","c","d","e","f","g","h","i","j","k","l","m",
            "n","o","p","q","r","s","t","u","v","w","x","y","z">>

LowerOf == [c \in {Uppers[i] : i \in 1..Len(Uppers)} |->
              Lowers[CHOOSE i \in 1..Len(Uppers) : Uppers[i] = c]]

LowerChar(c) == IF c \in DOMAIN LowerOf THEN LowerOf[c] ELSE c

\* s.lower()
lower(s) == [i \in 1..Len(s) |-> LowerChar(s[i])]

Digits == <<"0","1","2","3","4","5","6","7","8","9">>

RECURSIVE str(_)
\* str(n) of a natural number, as the f-string formats tab_index.
str(n) == IF n < 10 THEN <<Digits[n + 1]>>
          ELSE str(n \div 10) \o <<Digits[(n % 10) + 1]>>

\* A Python string literal as a sequence of characters.
Chars(s) == [i \in 1..Len(s) |-> SubSeq(s, i, i)]

(***************************************************************************)
(* Tab ids as the JSON of `kitty @ ls` can carry them: an integer, a       *)
(* string, or no id at all (tab.get('id') is None).                        *)
(***************************************************************************)

IntId(n) == [k |-> "int", v |-> n]

StrId == [k |-> "str", v |-> 0]

NoId == [k |-> "none", v |-> 0]

\* Python's truth value of a tab id: `if tab_id`, `if not tab_id`.
Truthy(tab_id) == (tab_id.k = "int" /\ tab_id.v # 0) \/ tab_id.k = "str"

\* A test of ids that lets every id pass that is true in a condition.
positive_int_truthy(tab_id) == Truthy(tab_id)

\* `isinstance(tab_id, int) and tab_id > 0`, the test that core.py:33,
\* core.py:163, tempfiles.py:67 and tempfiles.py:139 each write out.
positive_int(tab_id) == tab_id.k = "int" /\ tab_id.v > 0

\* validate_tab_id(tab_id)
validate_tab_id(tab_id) == positive_int(tab_id)

(***************************************************************************)
(* Configuration (smart_tabs/config.py): a record of the options that      *)
(* update_tabs reads.  Config() is built anew in every cycle, so the       *)
(* configuration is an input of the cycle.                                 *)
(***************************************************************************)

DefaultPalette ==
    << "#2b8eff", "#a9dc76", "#ab9df2", "#ffd866", "#78dce8", "#f48771",
       "#ff6188", "#fc9867", "#79dac8", "#5ad4e6", "#9ecd6f", "#e0af68",
       "#bb9af7", "#7dcfff", "#ff9e64", "#7aa2f7" >>

DEFAULT_CONFIG ==
    [ palette           |-> DefaultPalette,
      show_commands     |-> TRUE,
      show_tab_index    |-> TRUE,
      max_dir_length    |-> 30,
      max_cmd_length    |-> 30,
      ignored_shells    |-> { Chars("zsh"), Chars("bash"), Chars("sh"),
                              Chars("fish"), Chars("ksh"), Chars("tcsh"),
                              Chars("csh") },
      ignored_commands  |-> { Chars("npm"), Chars("yarn"), Chars("sleep"),
                              Chars("cat"), Chars("grep"), Chars("sed"),
                              Chars("awk"), Chars("pip"), Chars("gem") },
      ignored_prefixes  |-> << Chars("mcp_server_"), Chars("helper-"),
                               Chars("worker-"), Chars("node_modules"),
                               Chars("ts-node") >>,
      ignored_suffixes  |-> << Chars("-helper"), Chars("-worker"),
                               Chars("-daemon"), Chars("-service"),
                               Chars("-server") >>,
      priority_commands |-> { Chars("nvim"), Chars("vim"), Chars("vi"),
                              Chars("emacs"), Chars("code"), Chars("nano"),
                              Chars("claude"), Chars("git"), Chars("docker"),
                              Chars("kubectl") } ]

(***************************************************************************)
(* Colors (smart_tabs/colors.py)                                           *)
(***************************************************************************)

\* The characters the digest below knows, in a fixed order.
CodeTable == Chars("/abcdefghijklmnopqrstuvwxyz0123456789 .-_:[]")

CodeOf == [c \in {CodeTable[i] : i \in 1..Len(CodeTable)} |->
             CHOOSE i \in 1..Len(CodeTable) : CodeTable[i] = c]

CharCode(c) == IF c \in DOMAIN CodeOf THEN CodeOf[c] ELSE 0

RECURSIVE md5(_)
\* int(hashlib.md5(path.encode()).hexdigest(), 16): a fixed function of the
\* characters of path.  The digest itself is replaced by a polynomial
\* checksum: the program uses of it only that equal paths give equal
\* numbers, and unequal paths may or may not.
md5(path) ==
    IF path = <<>> THEN 7
    ELSE (md5(SubSeq(path, 1, Len(path) - 1)) * 31 + CharCode(path[Len(path)]))
         % 65536

\* get_color_for_path(path, color_palette)
get_color_for_path(path, color_palette) ==
    color_palette[(md5(path) % Len(color_palette)) + 1]

(***************************************************************************)
(* Titles                                                                  *)
(***************************************************************************)

untitled == Chars("untitled")

\* sanitize_title(title, max_length)
sanitize_title(title, max_length) ==
    IF title = <<>> \/ strip(title) = <<>> THEN untitled
    ELSE LET cut   == IF Len(title) > max_length
                      THEN SlicePrefix(title, max_length) ELSE title
             clean == SelectSeq(cut, isprintable)
         IN  IF clean = <<>> \/ strip(clean) = <<>> THEN untitled ELSE clean

\* The default of sanitize_title's max_length parameter.
DefaultTitleLength == 256

(***************************************************************************)
(* Process classifier                                                      *)
(***************************************************************************)

kitty_tools == { Chars("kitty"), Chars("kitten"), Chars("color_tabs_by_cwd"),
                 Chars("smart_tabs") }

system_utils == { Chars("sleep"), Chars("wait"), Chars("cat"), Chars("echo"),
                  Chars("true"), Chars("false"), Chars("test"), Chars("grep"),
                  Chars("sed"), Chars("awk"), Chars("tail"), Chars("head") }

\* interpreters: the script extensions of each interpreter name.
interpreters(name) ==
    CASE name = Chars("node")    -> { Chars("js"), Chars("mjs"), Chars("cjs") }
      [] name = Chars("python")  -> { Chars("py") }
      [] name = Chars("python3") -> { Chars("py") }
      [] name = Chars("python2") -> { Chars("py") }
      [] name = Chars("ruby")    -> { Chars("rb") }
      [] name = Chars("perl")    -> { Chars("pl") }
      [] name = Chars("php")     -> { Chars("php") }
      [] OTHER                   -> {}

interpreter_names ==
    { Chars("node"), Chars("python"), Chars("python3"), Chars("python2"),
      Chars("ruby"), Chars("perl"), Chars("php") }

generic_names == { Chars("index"), Chars("main"), Chars("app"), Chars("cli"),
                   Chars("bin"), Chars("start"), Chars("run") }

\* The extension loop: the first extension the script name ends with is
\* cut off together with its dot.  The extensions of one interpreter all
\* begin after a dot, so at most one of them matches.
RemoveExtension(script_name, exts) ==
    IF \E e \in exts : endswith(script_name, <<".">> \o e)
    THEN LET e == CHOOSE x \in exts : endswith(script_name, <<".">> \o x)
         IN  SlicePrefix(script_name, 0 - Len(e) - 1)
    ELSE script_name

RECURSIVE ScriptName(_, _, _)
\* The scan of cmdline[1:] for the script an interpreter runs: flags, bare
\* '/', '.', '..' and generic names are passed over; the first other
\* non-empty name replaces cmd_name.
ScriptName(cmd_name, args, exts) ==
    IF args = <<>> THEN cmd_name
    ELSE LET arg         == Head(args)
             script_name == RemoveExtension(LastSegment(arg), exts)
         IN  IF startswith(arg, Chars("-"))
             THEN ScriptName(cmd_name, Tail(args), exts)
             ELSE IF arg \in { Chars("/"), Chars("."), Chars("..") }
             THEN ScriptName(cmd_name, Tail(args), exts)
             ELSE IF lower(script_name) \in generic_names
             THEN ScriptName(cmd_name, Tail(args), exts)
             ELSE IF script_name # <<>> THEN script_name
             ELSE ScriptName(cmd_name, Tail(args), exts)

\* name[:max_length-3] + '...' when name is longer than max_length.
Truncate(name, max_length) ==
    IF Len(name) > max_length
    THEN SlicePrefix(name, max_length - 3) \o Chars("...")
    ELSE name

\* The login-shell dash is dropped (core.py:211-212).
StripDash(cmd_name) ==
    IF startswith(cmd_name, Chars("-")) THEN Tail(cmd_name) ELSE cmd_name

\* The filters of _parse_process_command (core.py:214-240) on the lowered
\* name: each of them returns None.
Filtered(low, config) ==
    \/ low \in config.ignored_shells
    \/ low \in kitty_tools
    \/ low \in system_utils
    \/ low \in config.ignored_commands
    \/ \E i \in 1..Len(config.ignored_prefixes) :
         startswith(low, lower(config.ignored_prefixes[i]))
    \/ \E i \in 1..Len(config.ignored_suffixes) :
         endswith(low, lower(config.ignored_suffixes[i]))

\* _parse_process_command from the point where cmd_name is known; low is
\* cmd_name.lower().
Label(cmd_name, low, cmdline, config) ==
    IF Filtered(low, config) THEN None
    ELSE Truncate(IF low \in interpreter_names
                  THEN ScriptName(cmd_name, Tail(cmdline), interpreters(low))
                  ELSE cmd_name,
                  config.max_cmd_length)

LabelOf(cmd_name, cmdline, config) ==
    Label(cmd_name, lower(cmd_name), cmdline, config)

\* _parse_process_command(process, config): the label of one foreground
\* process, None when it is filtered.
parse_process_command(process, config) ==
    IF process.cmdline = <<>> THEN None
    ELSE LabelOf(StripDash(LastSegment(process.cmdline[1])), process.cmdline,
                 config)

\* `if result: candidates.append(result)`
Kept(result) == IF result # None THEN <<result>> ELSE <<>>

RECURSIVE Candidates(_, _)
\* The loop of get_running_command that collects the labels of the
\* processes that are not filtered, in process order.
Candidates(fg_processes, config) ==
    IF fg_processes = <<>> THEN <<>>
    ELSE Kept(parse_process_command(Head(fg_processes), config))
         \o Candidates(Tail(fg_processes), config)

\* The first candidate at one of the positions `priority`, else the first
\* candidate.
FirstOf(candidates, priority) ==
    IF priority # {}
    THEN candidates[CHOOSE i \in priority : \A j \in priority : i <= j]
    ELSE candidates[1]

\* The choice among the candidates (core.py:312-320).
Preferred(candidates, config) ==
    IF candidates = <<>> THEN None
    ELSE FirstOf(candidates,
                 { i \in 1..Len(candidates) :
                     lower(candidates[i]) \in config.priority_commands })

\* get_running_command(tab, config)
get_running_command(tab, config) ==
    IF tab.windows = <<>> THEN None
    ELSE IF tab.windows[1].foreground_processes = <<>> THEN None
    ELSE Preferred(Candidates(tab.windows[1].foreground_processes, config),
                   config)

(***************************************************************************)
(* Side channel (smart_tabs/tempfiles.py), as read_cwd_safe sees it: the   *)
(* record file of a tab is absent, or has an owner, permission bits and a  *)
(* content.                                                                *)
(***************************************************************************)

NoFile == [exists |-> FALSE, uid |-> "self", mode |-> 0, content |-> <<>>]

\* The longest cwd the side channel accepts.
MaxCwdLength == 4096

\* The record file of tab_id in a file system fs (tab id -> file).
cwd_file(fs, n) == IF n \in DOMAIN fs THEN fs[n] ELSE NoFile

\* A read that tests neither the owner nor the permission bits.
read_cwd_unchecked(fs, tab_id) ==
    IF ~positive_int(tab_id) THEN None
    ELSE LET file == cwd_file(fs, tab_id.v)
             cwd  == strip(file.content)
         IN  IF ~file.exists THEN None
             ELSE IF cwd = <<>> \/ ~startswith(cwd, Chars("/")) THEN None
             ELSE IF Len(cwd) > MaxCwdLength THEN None
             ELSE cwd

\* read_cwd_safe(tab_id) on the file system fs; os.getuid() is "self".
read_cwd_safe(fs, tab_id) ==
    IF ~positive_int(tab_id) THEN None
    ELSE LET file == cwd_file(fs, tab_id.v)
             cwd  == strip(file.content)
         IN  IF ~file.exists THEN None
             ELSE IF file.uid # "self" THEN None
             ELSE IF file.mode % 64 # 0 THEN None
             ELSE IF cwd = <<>> \/ ~startswith(cwd, Chars("/")) THEN None
             ELSE IF Len(cwd) > MaxCwdLength THEN None
             ELSE cwd

(***************************************************************************)
(* CWD resolver                                                            *)
(***************************************************************************)

\* One lookup result of get_process_cwd: kept when it is an absolute path.
AbsoluteOrNone(table, pid) ==
    IF pid \in DOMAIN table /\ table[pid] # <<>>
       /\ startswith(table[pid], Chars("/"))
    THEN table[pid] ELSE None

\* get_process_cwd(pid): the target of /proc/<pid>/cwd, else the path lsof
\* prints, else None.  os.proc and os.lsof are what the two lookups answer.
get_process_cwd(os, pid) ==
    IF AbsoluteOrNone(os.proc, pid) # None THEN AbsoluteOrNone(os.proc, pid)
    ELSE AbsoluteOrNone(os.lsof, pid)

RECURSIVE ProcessCwd(_, _)
\* The first loop of get_tab_cwd: the cwd of the first foreground process
\* of the first window for which the lookup answers.
ProcessCwd(os, windows) ==
    IF windows = <<>> THEN None
    ELSE LET fg_processes == Head(windows).foreground_processes
             pid == fg_processes[1].pid
             cwd == get_process_cwd(os, pid)
         IN  IF fg_processes # <<>> /\ pid # 0 /\ cwd # None THEN cwd
             ELSE ProcessCwd(os, Tail(windows))

RECURSIVE ReportedCwd(_)
\* The second loop of get_tab_cwd: the first non-empty cwd kitty reports.
ReportedCwd(windows) ==
    IF windows = <<>> THEN None
    ELSE IF Head(windows).cwd # <<>> THEN Head(windows).cwd
    ELSE ReportedCwd(Tail(windows))

\* A resolver that prefers what follows.
OrElse_later(cwd, rest) == IF rest # None THEN rest ELSE cwd

\* `if cwd: return cwd`, else what follows.
OrElse(cwd, rest) == IF cwd # None THEN cwd ELSE rest

\* get_tab_cwd(tab)
get_tab_cwd(os, tab) ==
    IF ~Truthy(tab.id) THEN <<>>
    ELSE IF ~positive_int(tab.id) THEN <<>>
    ELSE OrElse(read_cwd_safe(os.files, tab.id),
                OrElse(ProcessCwd(os, tab.windows), ReportedCwd(tab.windows)))

(***************************************************************************)
(* The inputs of a cycle: what `kitty @ ls` lists, what the side channel   *)
(* and the process table hold, and the configuration file.  They are       *)
(* taken from a table of scenes and a table of configurations; the state   *)
(* holds the names.                                                        *)
(***************************************************************************)

Proc(pid, cmdline) == [pid |-> pid, cmdline |-> cmdline]

Window(cwd, procs) == [cwd |-> cwd, foreground_processes |-> procs]

Tab(tab_id, windows) == [id |-> tab_id, windows |-> windows]

OsWindow(tabs) == [tabs |-> tabs]

Shell == Proc(10, <<Chars("-zsh")>>)

Editor == Proc(11, <<Chars("/usr/bin/nvim"), Chars("notes")>>)

\* A tab with one window at cwd whose foreground process is the shell.
ShellTab(tab_id, cwd) == Tab(tab_id, <<Window(Chars(cwd), <<Shell>>)>>)

\* A tab of one window in which an editor runs.
EditorTab(tab_id, cwd) == Tab(tab_id, <<Window(Chars(cwd), <<Editor>>)>>)

\* No side-channel record and no answer of the process table.
NoOs == [files |-> <<>>, proc |-> <<>>, lsof |-> <<>>]

\* A record file as write_cwd_atomic leaves it (mode 0600, own uid).
Record(cwd) ==
    [exists |-> TRUE, uid |-> "self", mode |-> 384, content |-> Chars(cwd)]

Listing(os_windows) == [data |-> os_windows, os |-> NoOs]

Scenes ==
    [ a        |-> Listing(<<OsWindow(<<ShellTab(IntId(1), "/a")>>)>>),
      a_slash  |-> Listing(<<OsWindow(<<ShellTab(IntId(1), "/a/")>>)>>),
      b_a      |-> Listing(<<OsWindow(<<ShellTab(IntId(1), "/b/a")>>)>>),
      two_same |-> Listing(<<OsWindow(<<ShellTab(IntId(1), "/a/"),
                                        ShellTab(IntId(2), "/a")>>)>>),
      two      |-> [ data |-> <<OsWindow(<<ShellTab(IntId(1), "/a/"),
                                           ShellTab(IntId(2), "/a")>>)>>,
                     os   |-> [NoOs EXCEPT !.files = (1 :> Record("/b\n"))] ],
      root     |-> Listing(<<OsWindow(<<ShellTab(IntId(1), "/")>>)>>),
      empty    |-> Listing(<<OsWindow(<<ShellTab(IntId(1), ""),
                                        ShellTab(IntId(2), "/a")>>)>>),
      bad_ids  |-> Listing(<<OsWindow(<<ShellTab(IntId(0), "/a"),
                                        ShellTab(IntId(2), "/a"),
                                        ShellTab(IntId(-1), "/a"),
                                        ShellTab(StrId, "/a"),
                                        ShellTab(NoId, "/a")>>)>>),
      editor   |-> Listing(<<OsWindow(<<EditorTab(IntId(1), "/a//")>>)>>),
      windows  |-> Listing(<<OsWindow(<<ShellTab(IntId(1), "/b/a"),
                                        Tab(IntId(2),
                                            <<Window(Chars("/a"),
                                                     <<Shell, Editor>>)>>)>>),
                             OsWindow(<<EditorTab(IntId(3),
                                                  "/projects/longname/")>>)>>),
      blank    |-> Listing(<<OsWindow(<<ShellTab(IntId(1), "/ ")>>)>>) ]

\* The scenes the cycles of Spec see, and the scenes that show how a title
\* is put together: an editor in a directory reported with two trailing
\* separators, two OS windows, a directory whose name is a space.
CycleScenes ==
    {"a", "a_slash", "b_a", "two_same", "two", "root", "empty", "bad_ids"}

TitleScenes == {"a", "editor", "windows", "blank"}

\* A palette of two colors, so that different paths can share a color.
TwoColors == [DEFAULT_CONFIG EXCEPT !.palette = <<"#2b8eff", "#a9dc76">>]

Configs ==
    [ two_colors  |-> TwoColors,
      no_index    |-> [TwoColors EXCEPT !.show_tab_index = FALSE],
      no_commands |-> [TwoColors EXCEPT !.show_commands = FALSE],
      bare        |-> [TwoColors EXCEPT !.show_tab_index = FALSE,
                                        !.show_commands = FALSE],
      short       |-> [TwoColors EXCEPT !.max_dir_length = 5,
                                        !.max_cmd_length = 3] ]

\* The configurations of Spec, and those of the title claims.
CycleConfigs == {"two_colors", "no_index"}

TitleConfigs == DOMAIN Configs

SocketLists == {<<"/tmp/kitty-1234">>}

(***************************************************************************)
(* The reconciliation cycle: update_tabs (core.py:323-471)                 *)
(***************************************************************************)

VARIABLES
    tab_state_cache,    \* _tab_state_cache: tab id -> <<title, color>>
    tab_input_cache,    \* _tab_input_cache: tab id -> <<cwd, cmd, tab_index>>
    cached_socket_path, \* _cached_socket_path
    scene,              \* the name of what kitty, the files and /proc hold
    conf,               \* the name of what the configuration file holds
    applied,            \* tab id -> the title and color kitty shows for it
    ls_result,          \* how the `kitty @ ls` call of the last cycle ended
    calls,              \* the mutation calls the last cycle issued, in order
    changes_made,       \* what the last cycle returned
    raised,             \* whether the last cycle raised to its caller
    history             \* polled: a cycle has run on the present scene;
                        \* same: the last two cycles ran on the same scene;
                        \* clean: and the first of them listed the tabs and
                        \* none of its calls raised; changed: see TabsChange

\* The daemon processes of one user (smart_tabs/daemon.py) and the files
\* they share.
VARIABLES
    pc,                 \* process -> where it stands in run_daemon
    shutdown_requested, \* process -> _shutdown_requested
    lock_path,          \* the inode daemon.pid names, NoInode when absent
    inode_text,         \* inode -> the text it holds
    acquire,            \* process -> the locals of acquire_lock
    poll_interval,      \* config.poll_interval
    debug,              \* the debug argument of run_daemon
    loop,               \* process -> the locals of the poll loop
    exit_status,        \* process -> the status it exited with
    daemon_history      \* process -> what its loop has done so far

core_vars == << tab_state_cache, tab_input_cache, cached_socket_path, scene,
                conf, applied, ls_result, calls, changes_made, raised,
                history >>

daemon_vars == << pc, shutdown_requested, lock_path, inode_text, acquire,
                  poll_interval, debug, loop, exit_status, daemon_history >>

\* The side channel of one tab (smart_tabs/tempfiles.py): the processes that
\* write its record, and the process that reads it.
VARIABLES
    target,             \* the file tab_1_cwd, NoTarget when there is none
    temp,               \* writer -> its temporary file, NoTarget when none
    writer,             \* writer -> where its write_cwd_atomic call stands
    reader,             \* where the read_cwd_safe call stands
    written             \* the cwd values stored at first or passed to a write

store_vars == << target, temp, writer, reader, written >>

\* The side channel as single calls see it: write_cwd_atomic,
\* read_cwd_safe and get_tab_cwd, each from its call to its return.
VARIABLES
    root,               \* the storage root: file name -> file
    call                \* the last call: its arguments and how it ended

call_vars == << root, call >>

vars == << core_vars, daemon_vars, store_vars, call_vars >>

\* json.loads(result.stdout) of the `kitty @ ls` call
data == Scenes[scene].data

\* Config()
config == Configs[conf]

\* The tabs of all OS windows, in the order the loops visit them.
RECURSIVE AllTabs(_)
AllTabs(os_windows) ==
    IF os_windows = <<>> THEN <<>>
    ELSE Head(os_windows).tabs \o AllTabs(Tail(os_windows))

\* A normalization that was forgotten: the cwd is used as resolved.
normalize_missing(cwd) == cwd

\* A normalization that removes one trailing separator only.
normalize_once(cwd) ==
    IF cwd # <<>> /\ cwd[Len(cwd)] = "/"
    THEN SubSeq(cwd, 1, Len(cwd) - 1) ELSE cwd

\* cwd.rstrip('/') (core.py:387)
normalize(cwd) == rstrip(cwd, {"/"})

\* dir_name (core.py:388-392)
display_dir(cwd, cfg) ==
    LET dir_name == IF \E i \in 1..Len(cwd) : cwd[i] = "/"
                    THEN LastSegment(cwd) ELSE cwd
    IN  IF Len(dir_name) > cfg.max_dir_length
        THEN SlicePrefix(dir_name, cfg.max_dir_length - 3) \o Chars("...")
        ELSE dir_name

\* A Python dict as the keys in insertion order and the values: assigning
\* to a key that is present keeps its place.
EmptyDict == [keys |-> <<>>, val |-> <<>>]

HasKey(d, k) == \E i \in 1..Len(d.keys) : d.keys[i] = k

KeyIndex(d, k) == CHOOSE i \in 1..Len(d.keys) : d.keys[i] = k

Get(d, k) == d.val[KeyIndex(d, k)]

Put(d, k, v) ==
    IF HasKey(d, k)
    THEN [d EXCEPT !.val[KeyIndex(d, k)] = v]
    ELSE [keys |-> Append(d.keys, k), val |-> Append(d.val, v)]

\* The body of `if cwd and tab_id` (core.py:386-398) for a normalized cwd.
AddTab(acc, tab_id, cwd, cmd, cfg) ==
    [ info   |-> Put(acc.info, tab_id,
                     [cwd |-> cwd, dir_name |-> display_dir(cwd, cfg),
                      cmd |-> cmd]),
      colors |-> IF HasKey(acc.colors, cwd) THEN acc.colors
                 ELSE Put(acc.colors, cwd,
                          get_color_for_path(cwd, cfg.palette)) ]

\* One pass of the first loop for a tab whose cwd and command are resolved.
VisitTab(acc, tab_id, cwd, cmd, cfg) ==
    IF cwd # <<>> /\ Truthy(tab_id)
    THEN AddTab(acc, tab_id, normalize(cwd), cmd, cfg)
    ELSE acc

RECURSIVE BuildTabInfo(_, _, _, _)
\* The first loop (core.py:366-398): tab_info and cwd_to_color.
BuildTabInfo(tabs, env, cfg, acc) ==
    IF tabs = <<>> THEN acc
    ELSE BuildTabInfo(Tail(tabs), env, cfg,
                      VisitTab(acc, Head(tabs).id, get_tab_cwd(env, Head(tabs)),
                               IF cfg.show_commands
                               THEN get_running_command(Head(tabs), cfg)
                               ELSE None,
                               cfg))

RECURSIVE IndexTabs(_, _, _)
\* enumerate(os_window.get('tabs', []), start=1) of one OS window.
IndexTabs(tabs, idx, acc) ==
    IF tabs = <<>> THEN acc
    ELSE IndexTabs(Tail(tabs), idx + 1,
                   IF Truthy(Head(tabs).id) THEN Put(acc, Head(tabs).id, idx)
                   ELSE acc)

RECURSIVE BuildIndex(_, _)
\* The second loop (core.py:400-406): tab_id_to_index.
BuildIndex(os_windows, acc) ==
    IF os_windows = <<>> THEN acc
    ELSE BuildIndex(Tail(os_windows), IndexTabs(Head(os_windows).tabs, 1, acc))

\* The locals of update_tabs when the third loop begins.
LocalsOf(built, index) ==
    [ tab_info        |-> built.info,
      cwd_to_color    |-> built.colors,
      tab_id_to_index |-> index ]

\* The two loops before any call is made: they read the listing, the files
\* and the configuration only.
FirstLoops(sc, cfg) ==
    LocalsOf(BuildTabInfo(AllTabs(sc.data), sc.os, cfg,
                          [info |-> EmptyDict, colors |-> EmptyDict]),
             BuildIndex(sc.data, EmptyDict))

\* FirstLoops of every scene under every configuration.
Locals == [s \in DOMAIN Scenes, c \in DOMAIN Configs |->
             FirstLoops(Scenes[s], Configs[c])]

\* A title that carries the index whatever show_tab_index is.
format_title_indexed(cfg, tab_index, dir_name, cmd) ==
    IF cmd # None
    THEN str(tab_index) \o Chars(": ") \o dir_name \o Chars(" [") \o cmd
         \o Chars("]")
    ELSE str(tab_index) \o Chars(": ") \o dir_name

\* The title of a tab before sanitising (core.py:424-431).
format_title(cfg, tab_index, dir_name, cmd) ==
    IF cfg.show_tab_index /\ tab_index # 0
    THEN IF cmd # None
         THEN str(tab_index) \o Chars(": ") \o dir_name \o Chars(" [") \o cmd
              \o Chars("]")
         ELSE str(tab_index) \o Chars(": ") \o dir_name
    ELSE IF cmd # None THEN dir_name \o Chars(" [") \o cmd \o Chars("]")
         ELSE dir_name

(***************************************************************************)
(* The control interface.  A call of subprocess.run returns with status 0, *)
(* returns with another status, or raises (TimeoutExpired when the timeout *)
(* passes, OSError when kitty cannot be started).                          *)
(***************************************************************************)

CallResults == {"ok", "nonzero", "raised"}

\* How the `kitty @ ls` call of a cycle can end: as above, or with status 0
\* and an output json.loads rejects.
LsResults == CallResults \cup {"unparseable"}

\* At most this many mutation calls fail in one cycle.
MaxFaults == 1

RECURSIVE UpTo(_, _)
\* The subsets of S with at most n elements.
UpTo(S, n) ==
    IF n = 0 THEN {{}}
    ELSE UpTo(S, n - 1) \cup {F \cup {x} : F \in UpTo(S, n - 1), x \in S}

\* The ids of the listed tabs that are positive integers.
ListedIds(os_windows) ==
    { AllTabs(os_windows)[i].id : i \in 1..Len(AllTabs(os_windows)) }
        \cap { IntId(n) : n \in 1..9 }

\* The failures of mutation calls a cycle over os_windows can meet: at most
\* MaxFaults calls fail, each in one way.
FaultSets(os_windows) ==
    LET faults == [ id   : ListedIds(os_windows),
                    op   : {"set-tab-title", "set-tab-color"},
                    kind : CallResults \ {"ok"} ]
    IN  { F \in UpTo(faults, MaxFaults) :
            \A f, g \in F : (f.id = g.id /\ f.op = g.op) => f = g }

\* FaultSets of every scene.
Faults == [s \in DOMAIN Scenes |-> FaultSets(Scenes[s].data)]

\* The result of the call `op` for tab_id under the faults of a cycle.
Outcome(faults, tab_id, op) ==
    IF \E f \in faults : f.id = tab_id /\ f.op = op
    THEN (CHOOSE f \in faults : f.id = tab_id /\ f.op = op).kind
    ELSE "ok"

\* One subprocess.run of a mutation call: the call is recorded with its
\* result, kitty shows the new value when the call succeeded, and an
\* exception is pending when the call raised.
Run(st, faults, op, tab_id, arg) ==
    LET result == Outcome(faults, tab_id, op)
        shown  == IF tab_id \in DOMAIN st.applied THEN st.applied[tab_id]
                  ELSE [title |-> None, color |-> ""]
        now    == IF op = "set-tab-title" THEN [shown EXCEPT !.title = arg]
                  ELSE [shown EXCEPT !.color = arg]
    IN  [ st EXCEPT
            !.calls   = Append(@, [op |-> op, id |-> tab_id, arg |-> arg,
                                   result |-> result]),
            !.applied = IF result = "ok" THEN (tab_id :> now) @@ @ ELSE @,
            !.exc     = (result = "raised") ]

\* The try block without its cache writes.
ApplyTab_uncached(st, faults, tab_id, title, color, key) ==
    LET s1 == Run(st, faults, "set-tab-title", tab_id, title)
    IN  IF s1.exc THEN s1 ELSE Run(s1, faults, "set-tab-color", tab_id, color)

\* The try block with the caches written before the calls are made.
ApplyTab_eager(st, faults, tab_id, title, color, key) ==
    LET s0 == [ st EXCEPT
                  !.state_cache  = (tab_id :> <<title, color>>) @@ @,
                  !.input_cache  = (tab_id :> key) @@ @,
                  !.changes_made = @ + 1 ]
        s1 == Run(s0, faults, "set-tab-title", tab_id, title)
    IN  IF s1.exc THEN s1 ELSE Run(s1, faults, "set-tab-color", tab_id, color)

\* The try block with the write of the input cache left out.
ApplyTab_stale(st, faults, tab_id, title, color, key) ==
    LET s1 == Run(st, faults, "set-tab-title", tab_id, title)
        s2 == IF s1.exc THEN s1
              ELSE Run(s1, faults, "set-tab-color", tab_id, color)
    IN  IF s2.exc THEN s2
        ELSE [ s2 EXCEPT
                 !.state_cache  = (tab_id :> <<title, color>>) @@ @,
                 !.changes_made = @ + 1 ]

\* The try block (core.py:446-464): the title call, the color call, then
\* both caches and the counter; an exception leaves the block at once.
ApplyTab(st, faults, tab_id, title, color, key) ==
    LET s1 == Run(st, faults, "set-tab-title", tab_id, title)
        s2 == IF s1.exc THEN s1
              ELSE Run(s1, faults, "set-tab-color", tab_id, color)
    IN  IF s2.exc THEN s2
        ELSE [ s2 EXCEPT
                 !.state_cache  = (tab_id :> <<title, color>>) @@ @,
                 !.input_cache  = (tab_id :> key) @@ @,
                 !.changes_made = @ + 1 ]

\* A handler that is missing: the exception stays pending.
Except_missing(st) == st

\* A handler that forgets what is cached when a call raised.
Except_clearing(st) ==
    IF st.exc
    THEN [st EXCEPT !.exc = FALSE, !.state_cache = <<>>, !.input_cache = <<>>]
    ELSE st

\* `except Exception` around the two calls (core.py:466-469): the
\* exception is dropped (and logged when debug is set).
Except(st) == [st EXCEPT !.exc = FALSE]

\* An output cache that is never consulted.
output_unchanged_never(st, tab_id, title, color) == FALSE

\* cached_state == (title, color) (core.py:438-439)
output_unchanged(st, tab_id, title, color) ==
    tab_id \in DOMAIN st.state_cache /\ st.state_cache[tab_id] = <<title, color>>

\* cached_input == (cwd, cmd, tab_index) (core.py:418-419)
input_unchanged(st, tab_id, key) ==
    tab_id \in DOMAIN st.input_cache /\ st.input_cache[tab_id] = key

RECURSIVE ApplyLoop(_, _, _, _, _)
\* The third loop (core.py:409-469) over tab_info.items(); a pending
\* exception ends it.
ApplyLoop(keys, loc, cfg, faults, st) ==
    IF keys = <<>> \/ st.exc THEN st
    ELSE
    LET tab_id    == Head(keys)
        entry     == Get(loc.tab_info, tab_id)
        tab_index == IF HasKey(loc.tab_id_to_index, tab_id)
                     THEN Get(loc.tab_id_to_index, tab_id) ELSE 0
        key       == <<entry.cwd, entry.cmd, tab_index>>
        color     == Get(loc.cwd_to_color, entry.cwd)
        title     == sanitize_title(
                         format_title(cfg, tab_index, entry.dir_name, entry.cmd),
                         DefaultTitleLength)
        rest(s)   == ApplyLoop(Tail(keys), loc, cfg, faults, s)
    IN  IF ~validate_tab_id(tab_id) THEN rest(st)
        ELSE IF input_unchanged(st, tab_id, key) THEN rest(st)
        ELSE IF output_unchanged(st, tab_id, title, color) THEN rest(st)
        ELSE rest(Except(ApplyTab(st, faults, tab_id, title, color, key)))

\* _cached_socket_path = None
NoSocket == ""

\* find_kitty_socket(): the cached path, else the first match of the glob,
\* which is then cached.
find_kitty_socket(cached, sockets) ==
    IF cached # NoSocket THEN cached
    ELSE IF sockets # <<>> THEN sockets[1]
    ELSE NoSocket

\* A listing without its handler: an exception of the call leaves
\* update_tabs.
ListTabs_unhandled(ls) ==
    CASE ls = "ok"      -> "parsed"
      [] ls = "nonzero" -> "return"
      [] OTHER          -> "raise"

\* The tab listing (core.py:337-356): a status other than 0 returns at
\* once; any exception of the call or of json.loads is caught and returns.
ListTabs(ls) ==
    CASE ls = "ok"      -> "parsed"
      [] ls = "nonzero" -> "return"
      [] OTHER          -> "return"

(***************************************************************************)
(* What two consecutive cycles see                                         *)
(***************************************************************************)

\* What a cycle resolves for each listed tab, in listing order: the cwd as
\* get_tab_cwd returns it, the command and the tab index.
ResolvedTabs(sc, cfg) ==
    LET tabs  == AllTabs(sc.data)
        index == BuildIndex(sc.data, EmptyDict)
    IN  [ i \in 1..Len(tabs) |->
            [ id    |-> tabs[i].id,
              cwd   |-> get_tab_cwd(sc.os, tabs[i]),
              cmd   |-> IF cfg.show_commands
                        THEN get_running_command(tabs[i], cfg) ELSE None,
              index |-> IF HasKey(index, tabs[i].id)
                        THEN Get(index, tabs[i].id) ELSE 0 ] ]

\* ResolvedTabs of every scene under every configuration.
Snapshots == [s \in DOMAIN Scenes, c \in DOMAIN Configs |->
                ResolvedTabs(Scenes[s], Configs[c])]

\* The tab whose resolved cwd differs between the snapshots r0 and r1 when
\* that is their only difference, and NoId otherwise.
CwdChange(r0, r1) ==
    LET differing == { i \in 1..Len(r0) : r0[i] # r1[i] }
    IN  IF Len(r0) = Len(r1)
           /\ \E i \in differing :
                /\ differing = {i}
                /\ r0[i].cwd # r1[i].cwd
                /\ [r0[i] EXCEPT !.cwd = r1[i].cwd] = r1[i]
        THEN r0[CHOOSE i \in differing : TRUE].id
        ELSE NoId

\* The calls of cs that did not succeed.
FailedCalls(cs) ==
    { [id |-> cs[i].id, op |-> cs[i].op, result |-> cs[i].result] :
        i \in { j \in 1..Len(cs) : cs[j].result # "ok" } }

(***************************************************************************)
(* The state machine: a cycle of update_tabs, and a change of what the     *)
(* cycles see (tabs opened, closed or moved, a shell changing directory,   *)
(* the configuration file edited).                                         *)
(***************************************************************************)

\* The daemon processes before any of them has started.  `texts` is what
\* daemon.pid may hold (NoText: there is no such file), `intervals` and
\* `debugs` what poll_interval and the debug argument may be.
NoInode == -1

NoText == << "absent" >>

NotExited == -1

\* The locals of acquire_lock (with what it found of the lock: "absent",
\* "invalid", or the recorded process "alive", "foreign" or "dead", and how
\* the call ended), of the poll loop, and what a loop has done
\* (the sleeps since its last cycle began and the interval of the last one,
\* whether a cycle has begun, the cycles begun after the shutdown flag was
\* set), before the process comes to them.
NoLocals == [ pid |-> 0, fd |-> NoInode, found |-> "none", outcome |-> "none" ]

NoLoop == [ iteration |-> 0, current_interval |-> 0, idle_iterations |-> 0 ]

NoHistory == [ sleeps |-> 0, slept |-> 0, cycled |-> FALSE, late |-> 0 ]

DaemonInit(procs, texts, intervals, debugs) ==
    /\ pc = [p \in procs |-> "idle"]
    /\ shutdown_requested = [p \in procs |-> FALSE]
    /\ \E text \in texts :
          /\ lock_path = IF text = NoText THEN NoInode ELSE 0
          /\ inode_text = [i \in {0} \cup procs |->
                              IF i = 0 /\ text # NoText THEN text ELSE <<>>]
    /\ acquire = [p \in procs |-> NoLocals]
    /\ poll_interval \in intervals
    /\ debug \in debugs
    /\ loop = [p \in procs |-> NoLoop]
    /\ exit_status = [p \in procs |-> NotExited]
    /\ daemon_history = [p \in procs |-> NoHistory]

\* No daemon process takes part.
NoDaemon == DaemonInit({}, {NoText}, {2}, {FALSE})

\* A file that does not exist; its content is a sequence of bytes.
NoTarget == [exists |-> FALSE, uid |-> "self", mode |-> 0, content |-> <<>>]

\* The side channel before any call.  `writers` are the processes that will
\* write, `files` what tab_1_cwd may be, each with the cwd it stores.
StoreStart(writers, files) ==
    /\ \E f \in files :
          /\ target = f.file
          /\ written = f.cwds
    /\ temp = [w \in writers |-> NoTarget]
    /\ writer = [w \in writers |-> [pc |-> "idle", cwd |-> <<>>,
                                     outcome |-> "none"]]
    /\ reader = [pc |-> "idle", file |-> NoTarget, result |-> None,
                 returned |-> FALSE, raised |-> FALSE, swapped |-> FALSE]
       \* file: the file as the calls of the read saw it; returned, raised:
       \* how the last call ended; swapped: a rename has replaced the record
       \* since the read began

\* No process uses the side channel.
NoStore == StoreStart({}, {[file |-> NoTarget, cwds |-> {}]})

\* No call has been made, and the storage root is empty.  A call is
\* recorded with its arguments (the tab of get_tab_cwd, with what the
\* process table answers), the exception it raised or "none", what it
\* returned, and the write_cwd_atomic call that came just before it; a call
\* of one of the text functions of core.py is recorded with its arguments
\* in `arg`.
NoWrite == [op |-> "none", tab_id |-> NoId, cwd |-> <<>>, raised |-> "none"]

NoCall ==
    [ op |-> "none", tab_id |-> NoId, cwd |-> <<>>, raised |-> "none",
      result |-> None, tab |-> Tab(NoId, <<>>), proc |-> <<>>,
      prev |-> NoWrite, arg |-> <<>> ]

NoCalls == root = <<>> /\ call = NoCall

Init ==
    /\ tab_state_cache = <<>>
    /\ tab_input_cache = <<>>
    /\ cached_socket_path = NoSocket
    /\ scene \in CycleScenes
    /\ conf \in CycleConfigs
    /\ applied = <<>>
    /\ ls_result = "none"
    /\ calls = <<>>
    /\ changes_made = 0
    /\ raised = FALSE
    /\ history = [ polled |-> FALSE, same |-> FALSE, clean |-> FALSE,
                   changed |-> NoId ]
    /\ NoDaemon
    /\ NoStore
    /\ NoCalls

\* update_tabs() up to its return: `ls` is how the listing ended, `faults`
\* the mutation calls that fail.
Cycle(listed, loc, cfg, faults, st) ==
    IF listed = "parsed" THEN ApplyLoop(loc.tab_info.keys, loc, cfg, faults, st)
    ELSE [st EXCEPT !.exc = (listed = "raise")]

\* What update_tabs() leaves behind when it returns: st is what the cycle
\* has come to.
Outcomes(st, ls, socket) ==
    /\ tab_state_cache' = st.state_cache
    /\ tab_input_cache' = st.input_cache
    /\ cached_socket_path' = socket
    /\ applied' = st.applied
    /\ ls_result' = ls
    /\ calls' = st.calls
    /\ changes_made' = st.changes_made
    /\ raised' = st.exc
    /\ history' = [ polled  |-> TRUE,
                    same    |-> history.polled,
                    clean   |-> /\ history.polled
                                /\ ls_result = "ok"
                                /\ \A f \in FailedCalls(calls) :
                                      f.result # "raised",
                    changed |-> IF history.polled THEN NoId
                                ELSE history.changed ]
    /\ UNCHANGED << scene, conf, daemon_vars, store_vars >>

\* The return of update_tabs().
Return(st, ls, socket) == Outcomes(st, ls, socket) /\ UNCHANGED call_vars

\* One call of update_tabs(): `ls` is how the listing ends, `sockets` what
\* the glob of find_kitty_socket matches, `faults` the mutation calls that
\* fail.  The socket cache is filled by get_kitty_command (core.py:335) and
\* emptied when the listing fails (347, 352).
UpdateTabs ==
    \E ls \in LsResults :
    \E sockets \in IF cached_socket_path = NoSocket THEN SocketLists
                   ELSE {<<>>} :
    \E faults \in IF ls = "ok" THEN Faults[scene] ELSE {{}} :
        Return(Cycle(ListTabs(ls), Locals[scene, conf], config, faults,
                     [ state_cache  |-> tab_state_cache,
                       input_cache  |-> tab_input_cache,
                       applied      |-> applied,
                       calls        |-> <<>>,
                       changes_made |-> 0,
                       exc          |-> FALSE ]),
               ls,
               IF ListTabs(ls) = "parsed"
               THEN find_kitty_socket(cached_socket_path, sockets)
               ELSE NoSocket)

\* What the cycles see changes between two cycles.  No cycle has run on the
\* new scene, so the results of the last cycle are forgotten; history.changed
\* names the tab whose resolved cwd alone changed, provided the last cycle
\* listed the tabs and all its calls succeeded.
ChangeTabs(scenes) ==
    /\ history.polled
    /\ \E s \in scenes \ {scene} :
        /\ scene' = s
        /\ history' = [ polled  |-> FALSE,
                        same    |-> FALSE,
                        clean   |-> FALSE,
                        changed |-> IF ls_result = "ok" /\ FailedCalls(calls) = {}
                                    THEN CwdChange(Snapshots[scene, conf],
                                                   Snapshots[s, conf])
                                    ELSE NoId ]
    /\ ls_result' = "none"
    /\ calls' = <<>>
    /\ changes_made' = 0
    /\ raised' = FALSE
    /\ UNCHANGED << tab_state_cache, tab_input_cache, cached_socket_path,
                    conf, applied, daemon_vars, store_vars, call_vars >>

TabsChange == ChangeTabs(CycleScenes)

Next == UpdateTabs \/ TabsChange

Spec == Init /\ [][Next]_vars

(***************************************************************************)
(* Properties of update_tabs                                               *)
(***************************************************************************)

\* A step of UpdateTabs: a cycle has run when the step ends.
CycleStep == history'.polled

\* The tabs the present cycle lists with a positive integer id and a
\* resolved cwd that is not empty.
ListedTabs ==
    { r \in { Snapshots[scene, conf][i] :
                i \in 1..Len(Snapshots[scene, conf]) } :
        r.id.k = "int" /\ r.id.v > 0 /\ r.cwd # <<>> }

\* The title and the color that belong to a resolved tab r under cfg.
Expected(r, cfg) ==
    LET cwd == rstrip(r.cwd, {"/"})
    IN  << sanitize_title(format_title(cfg, r.index, display_dir(cwd, cfg), r.cmd),
                          DefaultTitleLength),
           get_color_for_path(cwd, cfg.palette) >>

\* The positions in cs of the calls `op` for tab_id.
CallsOf(cs, tab_id, op) ==
    { i \in 1..Len(cs) : cs[i].id = tab_id /\ cs[i].op = op }

KnownIds ==
    UNION { { AllTabs(Scenes[s].data)[i].id :
                i \in 1..Len(AllTabs(Scenes[s].data)) } : s \in DOMAIN Scenes }

\* The entry of tab_id in a cache: <<value>>, or <<>> when there is none.
Entry(cache, tab_id) ==
    IF tab_id \in DOMAIN cache THEN <<cache[tab_id]>> ELSE <<>>

\* Both mutation calls for tab_id are in cs and ended with status 0.
BothSucceeded(cs, tab_id) ==
    /\ \E i \in CallsOf(cs, tab_id, "set-tab-title") : cs[i].result = "ok"
    /\ \E i \in CallsOf(cs, tab_id, "set-tab-color") : cs[i].result = "ok"

\* C2: a cycle writes the cache entries of a tab and counts the tab only
\* when both its calls succeeded; a tab with a call that raised, timed out
\* or ended with a non-success status keeps both entries and is not counted.
C2_CachesOnlyOnSuccess ==
    [][CycleStep =>
         /\ \A t \in KnownIds :
              \/ BothSucceeded(calls', t)
              \/ /\ Entry(tab_state_cache', t) = Entry(tab_state_cache, t)
                 /\ Entry(tab_input_cache', t) = Entry(tab_input_cache, t)
         /\ changes_made'
              = Cardinality({ t \in KnownIds : BothSucceeded(calls', t) })]_vars

\* C3: every entry of the output cache is the title and the color kitty
\* shows for that tab.
C3_CacheAgreesWithKitty ==
    \A t \in DOMAIN tab_state_cache :
        /\ t \in DOMAIN applied
        /\ tab_state_cache[t] = << applied[t].title, applied[t].color >>

\* C4: after a cycle in which a mutation call for a tab failed, the next
\* cycle on the same scene, when it lists the tabs and meets no failure,
\* issues both calls for that tab.
C4_RetryAfterFailure ==
    [][(history.polled /\ CycleStep /\ ls_result = "ok" /\ ls_result' = "ok"
          /\ FailedCalls(calls') = {})
         => \A f \in FailedCalls(calls) :
              /\ CallsOf(calls', f.id, "set-tab-title") # {}
              /\ CallsOf(calls', f.id, "set-tab-color") # {}]_vars

\* The input-cache key of a resolved tab r.
KeyOf(r) == << rstrip(r.cwd, {"/"}), r.cmd, r.index >>

\* Neither cache lets the cycle skip the resolved tab r.
Due(r) ==
    /\ Entry(tab_input_cache, r.id) # << KeyOf(r) >>
    /\ Entry(tab_state_cache, r.id) # << Expected(r, config) >>

\* A call for tab_id in cs raised.
RaisedFor(cs, tab_id) ==
    \E i \in 1..Len(cs) : cs[i].id = tab_id /\ cs[i].result = "raised"

\* Both mutation calls for tab_id are in cs and neither raised.
BothReturned(cs, tab_id) ==
    /\ CallsOf(cs, tab_id, "set-tab-title") # {}
    /\ CallsOf(cs, tab_id, "set-tab-color") # {}
    /\ ~RaisedFor(cs, tab_id)

C6_ChangeDetection_AsStated ==
    [][(~history.polled /\ history.changed # NoId /\ CycleStep
          /\ ls_result' = "ok" /\ FailedCalls(calls') = {}
          /\ \E r \in ListedTabs :
               /\ r.id = history.changed
               /\ Entry(tab_input_cache, r.id) # << KeyOf(r) >>)
         => /\ Len(calls') = 2
            /\ calls'[1].op = "set-tab-title"
            /\ calls'[1].id = history.changed
            /\ calls'[2].op = "set-tab-color"
            /\ calls'[2].id = history.changed
            /\ changes_made' = 1]_vars

\* C6: in that situation the cycle issues one set-tab-title and one
\* set-tab-color call for the tab and returns 1 when the new cwd is not
\* empty and its title or color differs from the tab's output-cache entry;
\* otherwise it issues no call and returns 0.
C6_ChangeDetection ==
    [][(~history.polled /\ history.changed # NoId /\ CycleStep
          /\ ls_result' = "ok" /\ FailedCalls(calls') = {})
         => LET t   == history.changed
                now == { r \in ListedTabs : r.id = t }
            IN  IF \E r \in now :
                     Entry(tab_state_cache, t) # << Expected(r, config) >>
                THEN /\ Len(calls') = 2
                     /\ calls'[1].op = "set-tab-title" /\ calls'[1].id = t
                     /\ calls'[2].op = "set-tab-color" /\ calls'[2].id = t
                     /\ \A r \in now :
                          << calls'[1].arg, calls'[2].arg >> = Expected(r, config)
                     /\ changes_made' = 1
                ELSE calls' = <<>> /\ changes_made' = 0]_vars

\* A cycle after the cwd of one tab changed that issued the two calls for
\* that tab and returned 1.
C6_Witness ==
    /\ history.polled
    /\ history.changed # NoId
    /\ ls_result = "ok"
    /\ Len(calls) = 2
    /\ calls[1].id = history.changed
    /\ calls[2].id = history.changed
    /\ FailedCalls(calls) = {}
    /\ changes_made = 1

Assigned(tab_id) ==
    Get(Locals[scene, conf].cwd_to_color,
        Get(Locals[scene, conf].tab_info, tab_id).cwd)

\* C8: in a cycle, two tabs whose cwd is the same up to trailing slashes
\* are assigned the same color, and every set-tab-color call for them
\* carries it.
C8_SameCwdSameColor ==
    ls_result = "ok" =>
      \A r1, r2 \in ListedTabs :
        rstrip(r1.cwd, {"/"}) = rstrip(r2.cwd, {"/"}) =>
          /\ Assigned(r1.id) = Assigned(r2.id)
          /\ \A i \in CallsOf(calls, r2.id, "set-tab-color") :
               calls[i].arg = Assigned(r1.id)

\* A cycle that set the color of two tabs, one at /a/ and one at /a.
C8_Witness ==
    /\ scene = "two_same"
    /\ ls_result = "ok"
    /\ \E i, j \in 1..Len(calls) :
         /\ calls[i].op = "set-tab-color" /\ calls[i].id = IntId(1)
         /\ calls[j].op = "set-tab-color" /\ calls[j].id = IntId(2)
         /\ calls[i].arg = calls[j].arg

\* The cycle wrote a cache entry of tab_id.
Written(tab_id) ==
    \/ Entry(tab_state_cache', tab_id) # Entry(tab_state_cache, tab_id)
    \/ Entry(tab_input_cache', tab_id) # Entry(tab_input_cache, tab_id)

C10_TabIdValidation ==
    /\ \A i \in 1..Len(calls) : calls[i].id.k = "int" /\ calls[i].id.v > 0
    /\ \A t \in DOMAIN tab_state_cache \cup DOMAIN tab_input_cache :
         t.k = "int" /\ t.v > 0
    /\ (ls_result = "ok" /\ FailedCalls(calls) = {})
         => \A r \in ListedTabs :
              Entry(tab_state_cache, r.id) = << Expected(r, config) >>

\* A cycle over a listing with the ids 0, -1, a string and none that
\* applied the one tab with a valid id.
C10_Witness ==
    /\ scene = "bad_ids"
    /\ ls_result = "ok"
    /\ Len(calls) = 2
    /\ calls[1].id = IntId(2)
    /\ calls[2].id = IntId(2)
    /\ DOMAIN tab_state_cache = {IntId(2)}

(***************************************************************************)
(* The daemon (smart_tabs/daemon.py)                                       *)
(*                                                                         *)
(* Every call of the file system is one step of a process, so that the     *)
(* steps of two processes interleave.  A file is an inode that a path      *)
(* names: a text written through an open file goes to its inode, whatever  *)
(* the path names by then.                                                 *)
(***************************************************************************)

\* os.getpid() of daemon process p
Pid(p) == 10 + p

\* The daemon processes that have started and not exited.
LivePids == { Pid(q) : q \in { r \in DOMAIN pc : pc[r] \notin {"idle", "exited"} } }

\* Besides the daemons, one process lives: it belongs to another user.
OtherUsersPids == {7}

\* os.kill(pid, 0) by a process of this user; `live` are the pids of the
\* user's own processes.
kill(pid, live) ==
    IF pid \in live THEN "ok"
    ELSE IF pid \in OtherUsersPids THEN "PermissionError"
    ELSE "ProcessLookupError"

\* What the process table holds of pid.
Process(pid, live) ==
    IF pid \in live THEN "alive"
    ELSE IF pid \in OtherUsersPids THEN "foreign"
    ELSE "dead"

RECURSIVE IntOf(_)
\* The number a sequence of decimal digits writes.
IntOf(s) ==
    IF s = <<>> THEN 0
    ELSE IntOf(SubSeq(s, 1, Len(s) - 1)) * 10
         + ((CHOOSE d \in 1..10 : Digits[d] = s[Len(s)]) - 1)

\* int(s) of a text of digits; ok is FALSE where int raises ValueError.
int(s) ==
    IF s # <<>> /\ \A i \in 1..Len(s) : \E d \in 1..10 : Digits[d] = s[i]
    THEN [ok |-> TRUE, v |-> IntOf(s)]
    ELSE [ok |-> FALSE, v |-> 0]

\* What daemon.pid may hold when the daemons start: nothing, the pid of a
\* process that is gone, the pid of a process of another user, no number.
LockTexts == { NoText, Chars("9"), Chars("7"), Chars("x") }

\* An exit that runs the handlers of a process that holds no lock.
Exit_handlers(p, status) ==
    /\ exit_status' = [exit_status EXCEPT ![p] = status]
    /\ pc' = [pc EXCEPT ![p] = "cleanup_temp_files"]
    /\ loop' = [loop EXCEPT ![p] = NoLoop]
    /\ daemon_history' = [daemon_history EXCEPT ![p] = NoHistory]

\* Process p exits with `status`: its locals are gone, and the handlers that
\* atexit holds run, last registered first (daemon.py:101, then 79).
Exit(p, status) ==
    /\ exit_status' = [exit_status EXCEPT ![p] = status]
    /\ pc' = [pc EXCEPT ![p] = IF acquire[p].outcome = "acquired"
                               THEN "cleanup_temp_files" ELSE "exited"]
    /\ loop' = [loop EXCEPT ![p] = NoLoop]
    /\ daemon_history' = [daemon_history EXCEPT ![p] = NoHistory]

recorded_alive_never(pid, live) == FALSE

\* The test os.kill makes for acquire_lock: the recorded process is running.
recorded_alive(pid, live) == kill(pid, live) = "ok"

\* acquire_lock() of process p, one file system call at a time; a
\* RuntimeError ends run_daemon at lines 96-98, any other error ends it
\* with a traceback (status 1).
acquire_lock(p) ==
    /\ UNCHANGED << call_vars, core_vars, store_vars, shutdown_requested, poll_interval,
                    debug >>
    /\ \/ /\ pc[p] = "exists"                                  \* line 45
          /\ pc' = [pc EXCEPT ![p] = IF lock_path = NoInode THEN "open"
                                     ELSE "read_text"]
          /\ acquire' = [acquire EXCEPT ![p].found =
                            IF lock_path = NoInode THEN "absent" ELSE @]
          /\ UNCHANGED << lock_path, inode_text, exit_status, loop,
                          daemon_history >>
       \/ /\ pc[p] = "read_text"                               \* line 47
          /\ LET n == int(strip(inode_text[lock_path]))
             IN  IF lock_path = NoInode \/ ~n.ok
                 THEN /\ pc' = [pc EXCEPT ![p] = "unlink_invalid"]
                      /\ acquire' = [acquire EXCEPT ![p].found =
                                        IF lock_path = NoInode THEN "absent"
                                        ELSE "invalid"]
                 ELSE /\ pc' = [pc EXCEPT ![p] = "kill"]
                      /\ acquire' = [acquire EXCEPT ![p].pid = n.v]
          /\ UNCHANGED << lock_path, inode_text, exit_status, loop,
                          daemon_history >>
       \/ /\ pc[p] = "kill"                                    \* lines 50-55
          /\ IF recorded_alive(acquire[p].pid, LivePids)
             THEN /\ acquire' = [acquire EXCEPT
                                    ![p].outcome = "refused",
                                    ![p].found = Process(acquire[p].pid, LivePids)]
                  /\ Exit(p, 1)
             ELSE /\ pc' = [pc EXCEPT ![p] = "unlink_stale"]
                  /\ acquire' = [acquire EXCEPT
                                    ![p].found = Process(acquire[p].pid, LivePids)]
                  /\ UNCHANGED << exit_status, loop, daemon_history >>
          /\ UNCHANGED << lock_path, inode_text >>
       \/ /\ pc[p] = "unlink_stale"                            \* line 57
          /\ pc' = [pc EXCEPT ![p] = IF lock_path = NoInode
                                     THEN "unlink_invalid" ELSE "open"]
          /\ lock_path' = NoInode
          /\ UNCHANGED << inode_text, acquire, exit_status, loop,
                          daemon_history >>
       \/ /\ pc[p] = "unlink_invalid"                          \* lines 60-63
          /\ pc' = [pc EXCEPT ![p] = "open"]
          /\ lock_path' = NoInode
          /\ UNCHANGED << inode_text, acquire, exit_status, loop,
                          daemon_history >>
       \/ /\ pc[p] = "open"                      \* line 66: write_text opens
          /\ lock_path' = IF lock_path = NoInode THEN p ELSE lock_path
          /\ inode_text' = [inode_text EXCEPT ![lock_path'] = <<>>]
          /\ acquire' = [acquire EXCEPT ![p].fd = lock_path']
          /\ pc' = [pc EXCEPT ![p] = "write"]
          /\ UNCHANGED << exit_status, loop, daemon_history >>
       \/ /\ pc[p] = "write"                     \* line 66: and writes
          /\ inode_text' = [inode_text EXCEPT ![acquire[p].fd] = str(Pid(p))]
          /\ pc' = [pc EXCEPT ![p] = "chmod"]
          /\ UNCHANGED << lock_path, acquire, exit_status, loop,
                          daemon_history >>
       \/ /\ pc[p] = "chmod"                                   \* lines 67-80
          /\ IF lock_path = NoInode
             THEN /\ acquire' = [acquire EXCEPT ![p] =
                                    [NoLocals EXCEPT !.outcome = "error"]]
                  /\ Exit(p, 1)
             ELSE /\ acquire' = [acquire EXCEPT ![p] =
                                    [NoLocals EXCEPT !.outcome = "acquired"]]
                  /\ pc' = [pc EXCEPT ![p] = "setup"]
                  /\ UNCHANGED << exit_status, loop, daemon_history >>
          /\ UNCHANGED << lock_path, inode_text >>

cleanup_missing(p) ==
    /\ pc[p] = "cleanup_exists"
    /\ pc' = [pc EXCEPT ![p] = "exited"]
    /\ UNCHANGED << call_vars, core_vars, store_vars, shutdown_requested, lock_path,
                    inode_text, acquire, poll_interval, debug, loop,
                    exit_status, daemon_history >>

\* cleanup(), which acquire_lock registers with atexit, one call at a time;
\* every exception is passed over (lines 76-77).
cleanup(p) ==
    /\ UNCHANGED << call_vars, core_vars, store_vars, shutdown_requested, inode_text,
                    acquire, poll_interval, debug, loop, exit_status,
                    daemon_history >>
    /\ \/ /\ pc[p] = "cleanup_exists"                          \* line 72
          /\ pc' = [pc EXCEPT ![p] = IF lock_path = NoInode THEN "exited"
                                     ELSE "cleanup_read_text"]
          /\ UNCHANGED lock_path
       \/ /\ pc[p] = "cleanup_read_text"                       \* lines 73-74
          /\ LET current_pid == int(strip(inode_text[lock_path]))
             IN  pc' = [pc EXCEPT ![p] =
                          IF /\ lock_path # NoInode
                             /\ current_pid.ok
                             /\ current_pid.v = Pid(p)
                          THEN "cleanup_unlink" ELSE "exited"]
          /\ UNCHANGED lock_path
       \/ /\ pc[p] = "cleanup_unlink"                          \* line 75
          /\ lock_path' = NoInode
          /\ pc' = [pc EXCEPT ![p] = "exited"]

\* An interval of n sixteenths of a second is the integer n: the products
\* by 1.5 that the loop forms below 4 times the base are then whole.
IntervalUnit == 16

base_interval == poll_interval * IntervalUnit

max_interval == base_interval * 4

idle_threshold == 3

\* min(a, b)
min(a, b) == IF a <= b THEN a ELSE b

\* current_interval * 1.5
times_1_5(interval) == (interval * 3) \div 2

\* The most tabs one cycle updates.
MaxChanges == 2

\* How a call of update_tabs ends: it raises or returns changes_made.
update_tabs_results ==
    { [raised |-> TRUE, changes_made |-> 0] }
    \cup { [raised |-> FALSE, changes_made |-> n] : n \in 0..MaxChanges }

\* Whether a write to the debug log raises: there is none without debug.
LogRaises == IF debug THEN BOOLEAN ELSE {FALSE}

backs_off_late(l) ==
    /\ l.idle_iterations + 1 > idle_threshold
    /\ l.current_interval < max_interval

\* The test of line 140 on the loop locals l, after line 139.
backs_off(l) ==
    /\ l.idle_iterations + 1 >= idle_threshold
    /\ l.current_interval < max_interval

\* Lines 138-152 with an activity branch that forgets the interval.
adapt_unreset(l, changes, log_raises) ==
    IF changes = 0
    THEN IF backs_off(l)
         THEN [l EXCEPT !.idle_iterations = @ + 1,
                        !.current_interval = min(times_1_5(@), max_interval)]
         ELSE [l EXCEPT !.idle_iterations = @ + 1]
    ELSE [l EXCEPT !.idle_iterations = 0]

\* Lines 138-152 on the loop locals l; log_raises: the write to the debug
\* log (lines 143, 150), where there is one, raises.
adapt(l, changes, log_raises) ==
    IF changes = 0
    THEN IF backs_off(l)
         THEN [l EXCEPT !.idle_iterations = @ + 1,
                        !.current_interval = min(times_1_5(@), max_interval)]
         ELSE [l EXCEPT !.idle_iterations = @ + 1]
    ELSE IF l.current_interval # base_interval
         THEN IF log_raises
              THEN [l EXCEPT !.current_interval = base_interval]
              ELSE [l EXCEPT !.current_interval = base_interval,
                             !.idle_iterations = 0]
         ELSE [l EXCEPT !.idle_iterations = 0]

\* Lines 138-152 write to the debug log (lines 142, 149).
adapt_logs(l, changes) ==
    /\ debug
    /\ IF changes = 0 THEN backs_off(l)
       ELSE l.current_interval # base_interval

shutdown_seen_never(p) == FALSE

\* The test of _shutdown_requested at lines 118 and 126.
shutdown_seen(p) == shutdown_requested[p]

sleep_due_always(iteration) == TRUE

\* The test of line 121: every iteration but the first sleeps.
sleep_due(iteration) == iteration > 0

\* Lines 133-159 of process p when update_tabs ends as r and the write to
\* the debug log of lines 143 or 150, where there is one, raises or not.
Update(p, r, log_raises) ==
    /\ pc[p] = "update_tabs"
    /\ IF r.raised
       THEN /\ pc' = [pc EXCEPT ![p] = "except"]
            /\ UNCHANGED loop
       ELSE /\ loop' = [loop EXCEPT ![p] =
                           adapt(@, r.changes_made, log_raises)]
            /\ pc' = [pc EXCEPT ![p] =
                        IF log_raises /\ adapt_logs(loop[p], r.changes_made)
                        THEN "except" ELSE "while"]
    /\ UNCHANGED << exit_status, daemon_history >>

\* run_daemon(debug) of process p around acquire_lock: a step ends at a
\* call that blocks or that another process or a signal can precede.
\* `limit` bounds the iterations the loop enters.
run_daemon(p, limit) ==
    /\ UNCHANGED << call_vars, core_vars, shutdown_requested, lock_path, inode_text,
                    acquire, poll_interval, debug >>
    /\ target' = IF pc[p] = "cleanup_temp_files" THEN NoTarget ELSE target
    /\ UNCHANGED << temp, writer, reader, written >>
    /\ \/ /\ pc[p] = "idle"                                \* lines 89-95
          /\ pc' = [pc EXCEPT ![p] = "exists"]
          /\ UNCHANGED << loop, exit_status, daemon_history >>
       \/ /\ pc[p] = "setup"                               \* lines 100-117
          /\ \E raises \in LogRaises :
                IF raises
                THEN Exit(p, 1)
                ELSE /\ loop' = [loop EXCEPT ![p].current_interval =
                                                base_interval]
                     /\ pc' = [pc EXCEPT ![p] = "while"]
                     /\ UNCHANGED << exit_status, daemon_history >>
       \/ /\ pc[p] = "while"                               \* lines 118-121
          /\ IF shutdown_seen(p)
             THEN pc' = [pc EXCEPT ![p] = "shutdown"]
             ELSE /\ loop[p].iteration < limit
                  /\ pc' = [pc EXCEPT ![p] = IF sleep_due(loop[p].iteration)
                                             THEN "sleep" ELSE "woken"]
          /\ UNCHANGED << loop, exit_status, daemon_history >>
       \/ /\ pc[p] = "sleep"                               \* line 122
          /\ IF loop[p].current_interval < 0
             THEN /\ pc' = [pc EXCEPT ![p] = "except"]
                  /\ UNCHANGED daemon_history
             ELSE /\ pc' = [pc EXCEPT ![p] = "woken"]
                  /\ daemon_history' =
                        [daemon_history EXCEPT
                            ![p].sleeps = @ + 1,
                            ![p].slept = loop[p].current_interval]
          /\ UNCHANGED << loop, exit_status >>
       \/ /\ pc[p] = "woken"                               \* lines 123-127
          /\ loop' = [loop EXCEPT ![p].iteration = @ + 1]
          /\ pc' = [pc EXCEPT ![p] = IF shutdown_seen(p)
                                     THEN "shutdown" ELSE "cycle"]
          /\ UNCHANGED << exit_status, daemon_history >>
       \/ /\ pc[p] = "cycle"                               \* lines 130-132
          /\ \E raises \in IF loop[p].iteration % 5 = 0 THEN LogRaises
                           ELSE {FALSE} :
                pc' = [pc EXCEPT ![p] = IF raises THEN "except"
                                        ELSE "update_tabs"]
          /\ daemon_history' =
                [daemon_history EXCEPT
                    ![p].cycled = TRUE,
                    ![p].sleeps = 0,
                    ![p].late = IF shutdown_requested[p] THEN @ + 1 ELSE @]
          /\ UNCHANGED << loop, exit_status >>
       \/ \E r \in update_tabs_results : \E raises \in LogRaises :
             Update(p, r, raises)                          \* lines 133-152
       \/ /\ pc[p] = "except"                              \* lines 154-159
          /\ \E raises \in LogRaises :
                IF raises THEN Exit(p, 1)
                ELSE /\ pc' = [pc EXCEPT ![p] = "while"]
                     /\ UNCHANGED << loop, exit_status, daemon_history >>
       \/ /\ pc[p] = "shutdown"                            \* lines 161-164
          /\ \E raises \in LogRaises : Exit(p, IF raises THEN 1 ELSE 0)
       \/ /\ pc[p] = "cleanup_temp_files"       \* tempfiles.py:176-187
          /\ pc' = [pc EXCEPT ![p] = "cleanup_exists"]
          /\ UNCHANGED << loop, exit_status, daemon_history >>

\* signal_handler: SIGTERM or SIGINT reaches process p once line 91 has run.
signal_handler(p) ==
    /\ pc[p] \notin {"idle", "exited"}
    /\ ~shutdown_requested[p]
    /\ shutdown_requested' = [shutdown_requested EXCEPT ![p] = TRUE]
    /\ UNCHANGED << call_vars, core_vars, store_vars, pc, lock_path, inode_text,
                    acquire, poll_interval, debug, loop, exit_status,
                    daemon_history >>

\* No cycle of update_tabs takes part.
NoCycle ==
    /\ tab_state_cache = <<>>
    /\ tab_input_cache = <<>>
    /\ cached_socket_path = NoSocket
    /\ scene = "a"
    /\ conf = "two_colors"
    /\ applied = <<>>
    /\ ls_result = "none"
    /\ calls = <<>>
    /\ changes_made = 0
    /\ raised = FALSE
    /\ history = [ polled |-> FALSE, same |-> FALSE, clean |-> FALSE,
                   changed |-> NoId ]

\* What poll_interval may be: getint accepts every integer.
PollIntervals == { -1, 0, 1, 2 }

\* One daemon, its loop followed for MaxIterations iterations.
MaxIterations == 8

LoopInit ==
    NoCycle /\ NoStore /\ NoCalls /\ DaemonInit({1}, LockTexts, PollIntervals, BOOLEAN)

LoopStep == acquire_lock(1) \/ cleanup(1) \/ run_daemon(1, MaxIterations)

LoopNext == LoopStep \/ signal_handler(1)

LoopSpec == LoopInit /\ [][LoopNext]_vars

\* Every call the daemon makes returns or raises: the sleep ends, and the
\* calls of update_tabs carry timeouts.
LoopLive == LoopSpec /\ WF_vars(LoopStep)

\* Two daemons of one user, each loop followed for LockIterations
\* iterations.
LockIterations == 2

\* The record of a tab lies in the side channel when the daemons start:
\* cleanup_temp_files of a daemon that exits deletes it.
LockRecords == { [file |-> Record("/a"), cwds |-> {Chars("/a")}] }

LockInit ==
    /\ NoCycle
    /\ StoreStart({}, LockRecords)
    /\ NoCalls
    /\ DaemonInit({1, 2}, LockTexts, {2}, {FALSE})

LockNext ==
    \E p \in {1, 2} :
        \/ acquire_lock(p)
        \/ cleanup(p)
        \/ run_daemon(p, LockIterations)
        \/ signal_handler(p)

LockSpec == LockInit /\ [][LockNext]_vars

(***************************************************************************)
(* Properties of the daemon                                                *)
(***************************************************************************)

\* Process p is past acquire_lock and in the poll loop of run_daemon.
PollingPcs == {"while", "sleep", "woken", "cycle", "update_tabs", "except"}

Polling(p) == pc[p] \in PollingPcs

\* C11: at no time are two daemon processes of the user both past
\* acquire_lock and in the poll loop, however the steps of their
\* acquire_lock calls interleave.
C11_SingleInstance ==
    Cardinality({ p \in DOMAIN pc : Polling(p) }) <= 1

\* Process p leaves acquire_lock in this step: it returns the lock, or it
\* raises RuntimeError.
Returns(p) == acquire[p].outcome = "none" /\ acquire'[p].outcome = "acquired"

Refuses(p) == acquire[p].outcome = "none" /\ acquire'[p].outcome = "refused"

\* daemon.pid records the pid of process p.
Records(path, text, p) ==
    /\ path # NoInode
    /\ int(strip(text[path])).ok
    /\ int(strip(text[path])).v = Pid(p)

\* Another process than p has opened daemon.pid for writing and has not
\* exited.
OpenedByOther(p) ==
    \E q \in DOMAIN pc \ {p} :
        \/ pc'[q] \in {"write", "chmod"}
        \/ acquire'[q].outcome = "acquired" /\ pc'[q] # "exited"

Returned(p, n) ==
    \E log_raises \in LogRaises :
        Update(p, [raised |-> FALSE, changes_made |-> n], log_raises)

\* C13: with a positive base interval, every cycle that returns 0 and
\* brings the idle counter to the threshold 3 or beyond multiplies an
\* interval below the ceiling (4 times the base) by 1.5, capped at the
\* ceiling, which is a strict increase; an interval at the ceiling stays.
C13_IdleBackoff ==
    [][\A p \in DOMAIN pc :
          (/\ poll_interval > 0
           /\ Returned(p, 0)
           /\ loop'[p].idle_iterations >= 3)
          => /\ loop'[p].idle_iterations = loop[p].idle_iterations + 1
             /\ IF loop[p].current_interval < 4 * base_interval
                THEN /\ loop'[p].current_interval > loop[p].current_interval
                     /\ 2 * loop'[p].current_interval =
                           min(3 * loop[p].current_interval,
                               8 * base_interval)
                ELSE /\ loop[p].current_interval = 4 * base_interval
                     /\ loop'[p].current_interval = 4 * base_interval]_vars

\* The interval has grown in four cycles from the base to the ceiling, and
\* a further cycle without changes has left it there.
C13_Witness ==
    \E p \in DOMAIN pc :
        /\ poll_interval > 0
        /\ pc[p] = "while"
        /\ loop[p].idle_iterations = 7
        /\ loop[p].current_interval = 4 * base_interval

\* C14: after a cycle in which update_tabs returns a nonzero change count,
\* the sleep interval is the base interval and the idle counter is 0.
C14_BackoffReset ==
    [][\A p \in DOMAIN pc : \A n \in 1..MaxChanges :
          Returned(p, n)
          => /\ loop'[p].current_interval = base_interval
             /\ loop'[p].idle_iterations = 0]_vars

\* C15: the first cycle of run_daemon begins before any sleep, and every
\* later cycle begins after exactly one sleep since the cycle before it, a
\* sleep of the interval current at that time.
C15_CycleOrdering ==
    \A p \in DOMAIN pc :
        pc[p] = "cycle" =>
            IF daemon_history[p].cycled
            THEN /\ daemon_history[p].sleeps = 1
                 /\ daemon_history[p].slept = loop[p].current_interval
            ELSE daemon_history[p].sleeps = 0

\* A later cycle begins after one sleep of an interval the backoff has
\* raised.
C15_Witness ==
    \E p \in DOMAIN pc :
        /\ pc[p] = "cycle"
        /\ daemon_history[p].cycled
        /\ daemon_history[p].sleeps = 1
        /\ daemon_history[p].slept > base_interval

\* Process p runs a cycle: it is at the call of update_tabs or in it.
InCycle(p) == pc[p] \in {"cycle", "update_tabs"}

\* The parts of C16 that no run breaks.  A signal moves nothing but the
\* flag, and a cycle in progress ends as update_tabs ends, the flag set or
\* not; at most one cycle begins after the flag is set, and none when the
\* flag is set anywhere but between the test of line 126 and the end of
\* the cycle (so none when it is set before or during a sleep).
C16_NoInterruption ==
    [][\A p \in DOMAIN pc :
          /\ shutdown_requested'[p] # shutdown_requested[p]
                => pc' = pc /\ loop' = loop
          /\ (pc[p] = "update_tabs" /\ pc'[p] # "update_tabs")
                => \E r \in update_tabs_results : \E log_raises \in LogRaises :
                      Update(p, r, log_raises)]_vars

C16_OneMoreCycle ==
    /\ [](daemon_history[1].late <= 1)
    /\ []((shutdown_requested[1] /\ ~InCycle(1)) => [](~InCycle(1)))

C17_LockRelease ==
    \A p \in DOMAIN pc :
        pc[p] = "exited" => ~Records(lock_path, inode_text, p)

\* A process that held the lock has left its loop on a signal and exited
\* with status 0; the lock file is gone and the other process, which has
\* not started yet, will meet no lock.
C17_Witness ==
    \E p \in DOMAIN pc : \E q \in DOMAIN pc :
        /\ pc[p] = "exited"
        /\ acquire[p].outcome = "acquired"
        /\ shutdown_requested[p]
        /\ exit_status[p] = 0
        /\ lock_path = NoInode
        /\ pc[q] = "idle"

\* C18: an exception raised inside a cycle is caught and leaves the sleep
\* interval and the idle counter as they were, the loop goes on with its
\* next iteration, and the loop ends only through the shutdown flag.
C18_CycleFailureNotFatal ==
    [][\A p \in DOMAIN pc :
          /\ (pc[p] # "except" /\ pc'[p] = "except") => loop'[p] = loop[p]
          /\ (pc[p] = "except" /\ pc'[p] # "except") => pc'[p] = "while"
          /\ (pc[p] \in PollingPcs /\ pc'[p] \notin PollingPcs)
                => shutdown_requested[p]]_vars

\* x lies between a and b, whichever of them is the smaller.
Between(x, a, b) == min(a, b) <= x /\ x <= (IF a <= b THEN b ELSE a)

\* C28: while a process is in the poll loop of run_daemon, its sleep
\* interval lies between the base interval and 4 times the base interval
\* inclusive, and it is the base interval whenever the idle counter is
\* below the idle threshold 3.
C28_IntervalBounds ==
    \A p \in DOMAIN pc :
        Polling(p) =>
            /\ Between(loop[p].current_interval, base_interval,
                       4 * base_interval)
            /\ loop[p].idle_iterations < 3 =>
                  loop[p].current_interval = base_interval

\* The loop has slept longer than the base interval, a cycle with changes
\* followed, and the idle counter is below the threshold again.
C28_Witness ==
    \E p \in DOMAIN pc :
        /\ pc[p] = "while"
        /\ poll_interval > 0
        /\ daemon_history[p].slept > base_interval
        /\ loop[p].idle_iterations < 3
        /\ loop[p].current_interval = base_interval

(***************************************************************************)
(* The side channel (smart_tabs/tempfiles.py)                              *)
(*                                                                         *)
(* write_cwd_atomic and read_cwd_safe one system call at a time.  A file   *)
(* that a rename has put under the target name is never written again, so  *)
(* read_text, which opens and reads it, is one step.                       *)
(***************************************************************************)

\* cwd.encode('utf-8') and the decoding of read_text, on the characters of
\* CodeTable.
encode(cwd) == [i \in 1..Len(cwd) |-> CharCode(cwd[i])]

decode(bytes) == [i \in 1..Len(bytes) |-> CodeTable[bytes[i]]]

\* sub in s
Contains(s, sub) ==
    \E i \in 1..(Len(s) - Len(sub) + 1) : SubSeq(s, i, i + Len(sub) - 1) = sub

\* The tests of write_cwd_atomic on cwd (tempfiles.py:86-99) pass.
valid_cwd(cwd) ==
    /\ cwd # <<>>
    /\ startswith(cwd, Chars("/"))
    /\ ~Contains(cwd, Chars("/.."))
    /\ ~startswith(cwd, Chars(".."))
    /\ Len(cwd) <= MaxCwdLength

\* The cwd values the shell hooks pass: two directories, a directory whose
\* name ends with a space, a relative path.
CwdPool == { Chars("/a"), Chars("/b/c"), Chars("/d "), Chars("a") }

\* What tab_1_cwd may be before the calls: nothing, or what a write of
\* "/a" has left.
StoredFiles ==
    { [file |-> NoTarget, cwds |-> {}],
      [file |-> [exists |-> TRUE, uid |-> "self", mode |-> 384,
                 content |-> encode(Chars("/a"))],
       cwds |-> {Chars("/a")}] }

\* The file mkstemp creates: empty, readable and writable by its owner.
mkstemp == [exists |-> TRUE, uid |-> "self", mode |-> 384, content |-> <<>>]

remove_temp_missing(file) == file

\* os.unlink(temp_path) in the handler (tempfiles.py:123-126)
remove_temp(file) == NoTarget

\* The step of the call of writer w ends as `to` with the outcome `outcome`.
WriterAt(w, to, outcome) ==
    writer' = [writer EXCEPT ![w].pc = to, ![w].outcome = outcome]

\* The handler of write_cwd_atomic (tempfiles.py:121-127): os.unlink of the
\* temporary file, whose own failure is swallowed (125-126), then the
\* error of the try block is raised again.
handler(w, unlink_raises) ==
    /\ writer[w].pc = "unlink"
    /\ temp' = IF unlink_raises
               THEN temp
               ELSE [temp EXCEPT ![w] = remove_temp(@)]
    /\ WriterAt(w, "idle", "error")
    /\ UNCHANGED << target, written >>

write_cwd_in_place(w) ==
    /\ UNCHANGED << call_vars, core_vars, daemon_vars, temp, reader >>
    /\ \/ /\ writer[w].pc = "idle"
          /\ \E cwd \in { c \in CwdPool : valid_cwd(c) } :
                /\ writer' = [writer EXCEPT ![w] = [pc |-> "write",
                                 cwd |-> cwd, outcome |-> "none"]]
                /\ written' = written \cup {cwd}
                /\ target' = [mkstemp EXCEPT !.content =
                                 encode(SubSeq(cwd, 1, Len(cwd) - 1))]
       \/ /\ writer[w].pc = "write"
          /\ target' = [mkstemp EXCEPT !.content = encode(writer[w].cwd)]
          /\ WriterAt(w, "idle", "ok")
          /\ UNCHANGED written

\* write_cwd_atomic(1, cwd) of writer w, one system call at a time; each
\* call of the try block (lines 113-120) returns or raises.
write_cwd_atomic(w) ==
    /\ UNCHANGED << call_vars, core_vars, daemon_vars >>
    /\ \/ /\ writer[w].pc = "idle"                         \* lines 83-101
          /\ \E cwd \in CwdPool :
                IF valid_cwd(cwd)
                THEN /\ writer' = [writer EXCEPT ![w] = [pc |-> "mkstemp",
                                      cwd |-> cwd, outcome |-> "none"]]
                     /\ written' = written \cup {cwd}
                ELSE /\ writer' = [writer EXCEPT ![w] = [pc |-> "idle",
                                      cwd |-> cwd, outcome |-> "ValueError"]]
                     /\ UNCHANGED written
          /\ UNCHANGED << target, temp >>
       \/ /\ writer[w].pc = "mkstemp"                      \* lines 105-109
          /\ temp' = [temp EXCEPT ![w] = mkstemp]
          /\ WriterAt(w, "write", "none")
          /\ UNCHANGED << target, written >>
       \/ /\ writer[w].pc = "write"                        \* line 113
          /\ \/ /\ temp' = [temp EXCEPT ![w].content = encode(writer[w].cwd)]
                /\ WriterAt(w, "close", "none")
             \/ /\ WriterAt(w, "unlink", "none")
                /\ UNCHANGED temp
          /\ UNCHANGED << target, written >>
       \/ /\ writer[w].pc = "close"                        \* line 114
          /\ \E to \in {"chmod", "unlink"} : WriterAt(w, to, "none")
          /\ UNCHANGED << target, temp, written >>
       \/ /\ writer[w].pc = "chmod"                        \* line 117
          /\ \/ /\ temp' = [temp EXCEPT ![w].mode = 384]
                /\ WriterAt(w, "rename", "none")
             \/ /\ WriterAt(w, "unlink", "none")
                /\ UNCHANGED temp
          /\ UNCHANGED << target, written >>
       \/ /\ writer[w].pc = "rename"                       \* line 120
          /\ \/ /\ target' = temp[w]
                /\ temp' = [temp EXCEPT ![w] = NoTarget]
                /\ WriterAt(w, "idle", "ok")
             \/ /\ WriterAt(w, "unlink", "none")
                /\ UNCHANGED << target, temp >>
          /\ UNCHANGED written
       \/ \E unlink_raises \in BOOLEAN : handler(w, unlink_raises)
    /\ reader' = IF /\ writer[w].pc = "rename"
                    /\ writer'[w].outcome = "ok"
                    /\ reader.pc # "idle"
                 THEN [reader EXCEPT !.swapped = TRUE]
                 ELSE reader

\* A read without its handler: the exception leaves read_cwd_safe.
read_except_missing(r) == [r EXCEPT !.pc = "idle", !.raised = TRUE]

\* `except Exception` of read_cwd_safe (tempfiles.py:171-173): the error is
\* logged by _log_debug_error, which swallows its own failures (17-25),
\* and None is returned.
read_except(r) ==
    [r EXCEPT !.pc = "idle", !.result = None, !.returned = TRUE]

\* read_cwd_safe(1) of the reader, one system call at a time: exists (line
\* 145), stat (149), read_text (160).  A file that is gone at stat or at
\* read_text raises FileNotFoundError; the tests of lines 150-166 are
\* those of read_cwd_safe on the file as the calls saw it.
ReadCwd ==
    /\ UNCHANGED << call_vars, core_vars, daemon_vars, target, temp, writer, written >>
    /\ \/ /\ reader.pc = "idle"
          /\ reader' = IF target.exists
                       THEN [reader EXCEPT !.pc = "stat", !.file = NoTarget,
                                           !.returned = FALSE,
                                           !.swapped = FALSE]
                       ELSE [reader EXCEPT !.result = None, !.file = NoTarget,
                                           !.returned = TRUE,
                                           !.swapped = FALSE]
       \/ /\ reader.pc = "stat"
          /\ reader' = IF target.exists
                       THEN [reader EXCEPT !.pc = "read_text",
                                !.file = [target EXCEPT !.content = <<>>]]
                       ELSE read_except(reader)
       \/ /\ reader.pc = "read_text"
          /\ reader' = IF target.exists
                       THEN [reader EXCEPT
                               !.pc = "idle",
                               !.returned = TRUE,
                               !.result = read_cwd_safe(
                                   1 :> [reader.file EXCEPT
                                           !.content = decode(target.content)],
                                   IntId(1))]
                       ELSE read_except(reader)

\* cleanup_temp_files() of a daemon that exits, or of the maintenance path,
\* while the side channel is in use.
cleanup_temp_files ==
    /\ target.exists
    /\ target' = NoTarget
    /\ UNCHANGED << call_vars, core_vars, daemon_vars, temp, writer, reader, written >>

\* Two shell hooks write the record of tab 1 while the daemon reads it.
StoreInit ==
    NoCycle /\ NoDaemon /\ NoCalls /\ StoreStart({1, 2}, StoredFiles)

StoreNext ==
    \/ \E w \in {1, 2} : write_cwd_atomic(w)
    \/ ReadCwd
    \/ cleanup_temp_files

StoreSpec == StoreInit /\ [][StoreNext]_vars

(***************************************************************************)
(* Properties of the side channel                                          *)
(***************************************************************************)

WriterStep(w) == writer'[w] # writer[w]

\* C20 as stated: a call of the try block that raises (write, close,
\* chmod, rename) leads to the handler, after which the temporary file is
\* removed and the error is raised to the caller; no step of the call but
\* a rename that succeeds changes the record under the target name.
C20_FailedWrite_AsStated ==
    [][\A w \in DOMAIN writer :
          WriterStep(w) =>
             /\ (writer[w].pc = "rename" /\ writer'[w].outcome = "ok")
                   \/ target' = target
             /\ writer[w].pc = "unlink" =>
                   /\ ~temp'[w].exists
                   /\ writer'[w].pc = "idle"
                   /\ writer'[w].outcome = "error"]_vars

\* C20: a call of the try block that raises (write, close, chmod, rename)
\* leads to the handler, which leaves the temporary file as the failed
\* call left it; the handler removes the temporary file unless the unlink
\* fails too, and raises the error to the caller in both cases; only a
\* call that reached the handler ends with that error; and no step of any
\* call but a rename that succeeds, after which the call returns, changes
\* the record under the target name, so that a failed call leaves the
\* record as it was.
C20_FailedWrite ==
    [][\A w \in DOMAIN writer :
          WriterStep(w) =>
             /\ (writer[w].pc = "rename" /\ writer'[w].outcome = "ok")
                   \/ target' = target
             /\ writer'[w].outcome = "ok" =>
                   /\ writer[w].pc = "rename"
                   /\ target' = [mkstemp EXCEPT
                                    !.content = encode(writer[w].cwd)]
             /\ writer[w].pc = "unlink" =>
                   /\ writer'[w].pc = "idle"
                   /\ writer'[w].outcome = "error"
             /\ handler(w, FALSE) => ~temp'[w].exists
             /\ writer'[w].outcome = "error" => writer[w].pc = "unlink"
             /\ (writer[w].pc \in {"write", "close", "chmod", "rename"}
                 /\ writer'[w].pc = "unlink") => temp' = temp]_vars

\* A call has failed after its temporary file was created: the file is
\* gone, and the target holds the record of an earlier write of another
\* cwd.
C20_Witness ==
    \E w \in DOMAIN writer :
        /\ writer[w].pc = "idle"
        /\ writer[w].outcome = "error"
        /\ ~temp[w].exists
        /\ target.exists
        /\ decode(target.content) # writer[w].cwd

\* C24: no call of read_cwd_safe ends by raising to its caller, also when
\* the record is deleted by cleanup_temp_files or replaced by a writer
\* between the existence check, the stat and the read of the content:
\* the call returns a value or nothing.
C24_ReadNeverRaises ==
    /\ ~reader.raised
    /\ (reader.pc = "idle" /\ reader.file.exists) => reader.returned

\* The stat of a read has seen the record, the record was deleted before
\* its content was read, and the read has returned nothing.
C24_Witness ==
    /\ reader.pc = "idle"
    /\ reader.returned
    /\ reader.file.exists
    /\ reader.result = None
    /\ ~reader.raised

(***************************************************************************)
(* Further properties of update_tabs                                       *)
(***************************************************************************)

\* C30: no step removes an entry from the input cache or from the output
\* cache: a tab id that has an entry keeps one through every later cycle,
\* also when the tab is no longer listed, resolves no cwd, or has a
\* mutation call that fails.
C30_CachesOnlyGrow ==
    [][/\ DOMAIN tab_input_cache \subseteq DOMAIN tab_input_cache'
       /\ DOMAIN tab_state_cache \subseteq DOMAIN tab_state_cache']_vars

\* A cycle has run on a listing without tab 2, and tab 2 still has its
\* entries.
C30_Witness ==
    /\ history.polled
    /\ ls_result = "ok"
    /\ IntId(2) \notin ListedIds(data)
    /\ IntId(2) \in DOMAIN tab_input_cache
    /\ IntId(2) \in DOMAIN tab_state_cache

\* The normalized cwd values of tab_id in the present listing.
NormalizedCwds(tab_id) ==
    { normalize(Snapshots[scene, conf][i].cwd) :
        i \in { j \in 1..Len(Snapshots[scene, conf]) :
                  Snapshots[scene, conf][j].id = tab_id } }

\* C26: every tab for which the last cycle issued a mutation call, and
\* every tab with an entry in the input cache, has a normalized cwd that is
\* not empty: a tab whose cwd is empty, as resolved or after normalization,
\* is left out of the cycle's calls and caches.
C26_NonEmptyCwd ==
    /\ \A i \in 1..Len(calls) : <<>> \notin NormalizedCwds(calls[i].id)
    /\ \A tab_id \in DOMAIN tab_input_cache :
          tab_input_cache[tab_id][1] # <<>>

\* A cycle that lists the tabs and all of whose mutation calls succeed.
QuietCycle ==
    /\ CycleStep
    /\ ls_result' = "ok"
    /\ FailedCalls(calls') = {}

\* The call of update_tabs() in which the listing and every mutation call
\* succeed.
QuietUpdate ==
    \E st \in { Cycle("parsed", Locals[scene, conf], config, {},
                      [ state_cache  |-> tab_state_cache,
                        input_cache  |-> tab_input_cache,
                        applied      |-> applied,
                        calls        |-> <<>>,
                        changes_made |-> 0,
                        exc          |-> FALSE ]) } :
    \E sockets \in IF cached_socket_path = NoSocket THEN SocketLists
                   ELSE {<<>>} :
        Return(st, "ok", find_kitty_socket(cached_socket_path, sockets))

\* The cycles on a listing and a configuration that do not change.  The
\* daemon calls update_tabs again and again (daemon.py:118-135), and the
\* calls of the control interface do not fail for ever: as long as a
\* cycle without failures would change something, one such cycle runs.
StableSpec == Init /\ [][UpdateTabs]_vars /\ WF_vars(QuietUpdate)

\* kitty shows for every listed tab with a valid id and a cwd the title and
\* the color computed from the listing, and the last cycle returned 0.
Converged ==
    /\ \A r \in ListedTabs :
          /\ r.id \in DOMAIN applied
          /\ << applied[r.id].title, applied[r.id].color >> = Expected(r, config)
    /\ changes_made = 0

\* C27: on a listing and a configuration that no longer change, if from
\* some cycle on every call of the control interface succeeds, then from
\* some time on kitty shows for every listed tab with a valid id and a cwd
\* the title and the color computed from the listing and every cycle
\* returns 0, whatever failed in the cycles before.
C27_Convergence ==
    <>[][QuietCycle]_vars => <>[]Converged

(***************************************************************************)
(* The side channel call by call: write_cwd_atomic, read_cwd_safe and      *)
(* get_tab_cwd, each from its call to its return with no other process in  *)
(* between and no failing system call.  The storage root maps the names    *)
(* of its files to the files; a name is <<"tab", n, "cwd">> for tab_n_cwd  *)
(* and <<"tab", n, "tmp">> for the tab_n_*.tmp that mkstemp creates.       *)
(***************************************************************************)

\* get_cwd_file_path(tab_id) for a tab_id that passed its test
get_cwd_file_path(tab_id) == << "tab", tab_id.v, "cwd" >>

\* temp_path of tempfile.mkstemp(prefix='tab_<id>_', suffix='.tmp')
temp_path(tab_id) == << "tab", tab_id.v, "tmp" >>

\* A rename that copies: the source stays.
rename_copy(fs, src, dst) == (dst :> fs[src]) @@ fs

\* os.rename(src, dst) in the directory fs
rename(fs, src, dst) ==
    [ n \in (DOMAIN fs \ {src}) \cup {dst} |->
        IF n = dst THEN fs[src] ELSE fs[n] ]

\* write_cwd_atomic(tab_id, cwd) on the storage root fs: what it raises,
\* and the storage root it leaves.
WriteCwd(fs, tab_id, cwd) ==
    IF ~positive_int(tab_id) \/ ~valid_cwd(cwd)            \* lines 83-99
    THEN [raised |-> "ValueError", fs |-> fs]
    ELSE [raised |-> "none",
          fs |-> rename((temp_path(tab_id) :>              \* lines 105-120
                            [mkstemp EXCEPT !.content = encode(cwd),
                                            !.mode = 384])
                        @@ fs,
                        temp_path(tab_id), get_cwd_file_path(tab_id))]

\* The record files of the storage root fs as read_text gives them: tab
\* number -> file, the content decoded.
RecordFiles(fs) ==
    [ n \in { m \in 1..2 : get_cwd_file_path(IntId(m)) \in DOMAIN fs } |->
        [ fs[get_cwd_file_path(IntId(n))] EXCEPT !.content = decode(@) ] ]

\* A path of n characters.
Long(n) == << "/" >> \o [i \in 1..(n - 1) |-> "a"]

\* The tab ids and the cwd values the calls are made with: every tab id
\* with every short cwd, and tab 1 with the longest cwd that is accepted
\* and the shortest that is not.
TabIds == { IntId(1), IntId(2), IntId(0), IntId(-1), StrId, NoId }

Cwds ==
    { Chars("/a"), Chars("/b "), Chars("/a/..b"), Chars("/a/../b"),
      Chars("/.."), Chars("a"), Chars("") }

WriteArgs ==
    (TabIds \X Cwds)
        \cup ({IntId(1)} \X {Long(MaxCwdLength), Long(MaxCwdLength + 1)})

\* A record file that another program has put under the name of tab 1.
Foreign(uid, mode, text) ==
    get_cwd_file_path(IntId(1)) :>
        [exists |-> TRUE, uid |-> uid, mode |-> mode,
         content |-> encode(text)]

\* What the storage root may hold before the calls: nothing, or a record
\* of tab 1 that is not as write_cwd_atomic leaves it (another owner; the
\* modes 0644, 0640, 0604; a content that is relative, has a traversal
\* segment, is too long or is blank).
Roots ==
    { <<>>,
      Foreign("other", 384, Chars("/a")),
      Foreign("self", 420, Chars("/a")),
      Foreign("self", 416, Chars("/a")),
      Foreign("self", 388, Chars("/a")),
      Foreign("self", 384, Chars("a")),
      Foreign("self", 384, Chars("/a/../b")),
      Foreign("self", 384, Long(MaxCwdLength + 1)),
      Foreign("self", 384, Chars(" ")) }

\* The tabs get_tab_cwd is called with, and what /proc answers.
Tabs ==
    { Tab(id, windows) :
        id \in { IntId(1), IntId(2), IntId(-1), NoId },
        windows \in { <<>>,
                      << Window(Chars("/k"), <<Shell>>) >>,
                      << Window(Chars(""), <<>>),
                         Window(Chars("/k"), <<Editor, Shell>>) >>,
                      << Window(Chars(""), <<Shell>>),
                         Window(Chars("/k"), <<Editor>>) >> } }

ProcTables ==
    { <<>>,
      (10 :> Chars("/p10")),
      (11 :> Chars("/p11")),
      (10 :> Chars("/p10")) @@ (11 :> Chars("/p11")) }

\* The write_cwd_atomic call that has just returned without raising, if
\* the last call is one.
LastWrite ==
    IF call.op = "write" /\ call.raised = "none"
    THEN [op |-> "write", tab_id |-> call.tab_id, cwd |-> call.cwd,
          raised |-> call.raised]
    ELSE NoWrite

\* One call of write_cwd_atomic(tab_id, cwd).
WriteCall ==
    /\ \E args \in WriteArgs :
        \E r \in { WriteCwd(root, args[1], args[2]) } :
          /\ root' = r.fs
          /\ call' = [NoCall EXCEPT !.op = "write", !.tab_id = args[1],
                                    !.cwd = args[2], !.raised = r.raised]
    /\ UNCHANGED << core_vars, daemon_vars, store_vars >>

\* One call of read_cwd_safe(tab_id).
ReadCall ==
    /\ \E files \in { RecordFiles(root) } : \E tab_id \in TabIds :
          call' = [NoCall EXCEPT !.op = "read", !.tab_id = tab_id,
                      !.result = read_cwd_safe(files, tab_id),
                      !.prev = LastWrite]
    /\ UNCHANGED << root, core_vars, daemon_vars, store_vars >>

\* One call of get_tab_cwd(tab).
TabCwdCall ==
    /\ \E files \in { RecordFiles(root) } :
        \E tab \in Tabs : \E proc \in ProcTables :
          call' = [NoCall EXCEPT !.op = "get_tab_cwd", !.tab_id = tab.id,
                      !.tab = tab, !.proc = proc,
                      !.result = get_tab_cwd([files |-> files,
                                              proc  |-> proc,
                                              lsof  |-> <<>>], tab)]
    /\ UNCHANGED << root, core_vars, daemon_vars, store_vars >>

CallInit ==
    /\ NoCycle /\ NoDaemon /\ NoStore
    /\ root \in Roots
    /\ call = NoCall

CallNext == WriteCall \/ ReadCall \/ TabCwdCall

CallSpec == CallInit /\ [][CallNext]_vars

(***************************************************************************)
(* Claims on the calls                                                     *)
(***************************************************************************)

\* '..' is a path segment of cwd: it stands between two separators, or
\* between a separator and an end of the path.
TraversalSegment(cwd) ==
    \E i \in 1..(Len(cwd) - 1) :
        /\ cwd[i] = "." /\ cwd[i + 1] = "."
        /\ (i = 1 \/ cwd[i - 1] = "/")
        /\ (i + 1 = Len(cwd) \/ cwd[i + 2] = "/")

\* The pairs (tab_id, cwd) that are to be rejected.
Rejected(tab_id, cwd) ==
    \/ ~(tab_id.k = "int" /\ tab_id.v > 0)
    \/ cwd = <<>>
    \/ cwd[1] # "/"
    \/ TraversalSegment(cwd)
    \/ Len(cwd) > 4096

\* The record of tab_id is cwd, owned by the caller, mode 0600.
Stored(fs, tab_id, cwd) ==
    /\ get_cwd_file_path(tab_id) \in DOMAIN fs
    /\ fs[get_cwd_file_path(tab_id)] =
          [exists |-> TRUE, uid |-> "self", mode |-> 384,
           content |-> encode(cwd)]

\* The step is a call of write_cwd_atomic (no other action records one).
WriteReturns == call'.op = "write"

\* C22: write_cwd_atomic raises its validation error, and leaves the
\* storage root as it was, exactly when tab_id is not a positive integer
\* or cwd is empty, does not begin with '/', has '..' as a path segment or
\* is longer than 4096; every other pair is accepted and stored.
C22_WriteValidation ==
    [][ WriteReturns =>
          /\ (call'.raised = "ValueError")
                <=> Rejected(call'.tab_id, call'.cwd)
          /\ call'.raised = "ValueError" => root' = root
          /\ call'.raised = "none"
                => Stored(root', call'.tab_id, call'.cwd) ]_vars

\* The same with the test the code makes on '..': the characters '/..'
\* anywhere in cwd.
C22_WriteValidation_Substring ==
    [][ WriteReturns =>
          /\ (call'.raised = "ValueError")
                <=> \/ Rejected(call'.tab_id, call'.cwd)
                    \/ Contains(call'.cwd, Chars("/.."))
          /\ call'.raised = "ValueError" => root' = root
          /\ call'.raised = "none"
                => Stored(root', call'.tab_id, call'.cwd) ]_vars

\* No temporary file is in the storage root.
NoTmp(fs) == \A name \in DOMAIN fs : name[3] # "tmp"

\* read_cwd_safe(tab_id) has been called right after a write_cwd_atomic of
\* the same tab_id that returned.
ReadAfterWrite ==
    /\ call.op = "read"
    /\ call.prev.op = "write"
    /\ call.prev.tab_id = call.tab_id

C29_ReadValidation ==
    (call.op = "read" /\ call.result # None) => valid_cwd(call.result)

\* The record file of the call's tab is in the storage root.
RecordOf(tab_id) == root[get_cwd_file_path(tab_id)]

HasRecord(tab_id) ==
    /\ tab_id.k = "int" /\ tab_id.v > 0
    /\ get_cwd_file_path(tab_id) \in DOMAIN root

\* The record file of tab_id is owned by another user, or its permission
\* bits grant something to the group or to the others.
Untrusted(tab_id) ==
    /\ HasRecord(tab_id)
    /\ \/ RecordOf(tab_id).uid # "self"
       \/ (RecordOf(tab_id).mode \div 8) % 8 # 0
       \/ RecordOf(tab_id).mode % 8 # 0

\* C23: read_cwd_safe returns nothing for a record file that is owned by
\* another user or open to group or other, and get_tab_cwd resolves the
\* tab as it does with no record file at all.
C23_AccessChecks ==
    /\ (call.op = "read" /\ Untrusted(call.tab_id)) => call.result = None
    /\ (call.op = "get_tab_cwd" /\ Untrusted(call.tab_id)) =>
          call.result = get_tab_cwd([files |-> <<>>, proc |-> call.proc,
                                     lsof |-> <<>>], call.tab)

C23_Witness ==
    /\ call.op = "get_tab_cwd"
    /\ Untrusted(call.tab_id)
    /\ RecordOf(call.tab_id).uid = "self"
    /\ RecordOf(call.tab_id).mode = 416
    /\ decode(RecordOf(call.tab_id).content) = Chars("/a")
    /\ call.result = Chars("/k")

\* The lookup get_tab_cwd makes for window w: the cwd of its first
\* foreground process.
Lookup(proc, w) ==
    IF w.foreground_processes # <<>> /\ w.foreground_processes[1].pid # 0
    THEN get_process_cwd([files |-> <<>>, proc |-> proc, lsof |-> <<>>],
                         w.foreground_processes[1].pid)
    ELSE None

\* The value of the least index of s that satisfies Test, else None.
LeastWith(s, Test(_)) ==
    IF \E i \in DOMAIN s : Test(s[i])
    THEN s[CHOOSE i \in DOMAIN s :
                Test(s[i]) /\ \A j \in 1..(i - 1) : ~Test(s[j])]
    ELSE None

\* What the order of precedence gives for the tab of the call.
Precedence ==
    LET record   == read_cwd_safe(RecordFiles(root), call.tab.id)
        lookups  == [i \in DOMAIN call.tab.windows |->
                        Lookup(call.proc, call.tab.windows[i])]
        reported == [i \in DOMAIN call.tab.windows |->
                        call.tab.windows[i].cwd]
        Found(v) == v # None
    IN  IF ~(call.tab.id.k = "int" /\ call.tab.id.v > 0) THEN <<>>
        ELSE IF record # None THEN record
        ELSE IF LeastWith(lookups, Found) # None THEN LeastWith(lookups, Found)
        ELSE LeastWith(reported, Found)

TitleInit ==
    /\ tab_state_cache = <<>>
    /\ tab_input_cache = <<>>
    /\ cached_socket_path = NoSocket
    /\ scene \in TitleScenes
    /\ conf \in TitleConfigs
    /\ applied = <<>>
    /\ ls_result = "none"
    /\ calls = <<>>
    /\ changes_made = 0
    /\ raised = FALSE
    /\ history = [ polled |-> FALSE, same |-> FALSE, clean |-> FALSE,
                   changed |-> NoId ]
    /\ NoDaemon
    /\ NoStore
    /\ NoCalls

TitleChange == ChangeTabs(TitleScenes)

TitleNext == UpdateTabs \/ TitleChange

TitleSpec == TitleInit /\ [][TitleNext]_vars

\* The title and the color that belong to an entry of the input cache.
OutputOf(key, cfg) ==
    Expected([cwd |-> key[1], cmd |-> key[2], index |-> key[3]], cfg)

\* C31: the input cache and the output cache hold entries for the same tab
\* ids, and the title and color cached for a tab are those computed from
\* the cwd, command and tab index cached for it.
C31_CacheCoherence ==
    /\ DOMAIN tab_input_cache = DOMAIN tab_state_cache
    /\ \A tab_id \in DOMAIN tab_input_cache :
          tab_state_cache[tab_id] = OutputOf(tab_input_cache[tab_id], config)

\* Three tabs are cached, one with a command, after a failed call and a
\* change of the listing.
C31_Witness ==
    /\ scene = "editor"
    /\ DOMAIN tab_input_cache = { IntId(1), IntId(2), IntId(3) }
    /\ tab_input_cache[IntId(2)] = << Chars("/a"), Chars("nvim"), 2 >>
    /\ tab_input_cache[IntId(1)] = << Chars("/a"), Chars("nvim"), 1 >>
    /\ FailedCalls(calls) # {}

\* cwd with one trailing '/' removed when it has one.
WithoutOneSlash(cwd) ==
    IF cwd # <<>> /\ cwd[Len(cwd)] = "/"
    THEN SubSeq(cwd, 1, Len(cwd) - 1) ELSE cwd

\* cwd without its trailing separators: the longest prefix of cwd that does
\* not end with '/'.
WithoutSlashes(cwd) ==
    SubSeq(cwd, 1,
           CHOOSE k \in 0..Len(cwd) :
              /\ k = 0 \/ cwd[k] # "/"
              /\ \A i \in (k + 1)..Len(cwd) : cwd[i] = "/")

\* The cycle that has just run used Norm(cwd) for every tab it has issued
\* calls for: the color it passed is the color of that value, and the
\* input cache entry it wrote holds that value.
NormalizedBy(Norm(_)) ==
    (history.polled /\ ls_result = "ok") =>
        \A r \in ListedTabs :
            /\ \A i \in CallsOf(calls, r.id, "set-tab-color") :
                  calls[i].arg = get_color_for_path(Norm(r.cwd), config.palette)
            /\ BothReturned(calls, r.id) =>
                  tab_input_cache[r.id][1] = Norm(r.cwd)

\* C32 as stated: the normalized cwd is the resolved cwd with exactly one
\* trailing '/' removed when present, and is used for the color and the
\* input cache.
C32_Normalization_AsStated == NormalizedBy(WithoutOneSlash)

\* C32: the normalized cwd is the resolved cwd with all its trailing '/'
\* removed, and is used for the color and the input cache.
C32_Normalization == NormalizedBy(WithoutSlashes)

\* The editor's tab, reported in '/a//', has been cached under '/a'.
C32_Witness ==
    /\ history.polled /\ ls_result = "ok"
    /\ scene = "editor"
    /\ BothReturned(calls, IntId(1))
    /\ \E r \in ListedTabs : r.id = IntId(1) /\ r.cwd = Chars("/a//")
    /\ tab_input_cache[IntId(1)][1] = Chars("/a")

\* The listed tab with the id tab_id, and its 1-based position within its
\* OS window (the ids of a listing of TitleScenes differ from each other).
TabOf(tab_id) ==
    CHOOSE t \in { AllTabs(data)[i] : i \in 1..Len(AllTabs(data)) } :
        t.id = tab_id

PositionOf(tab_id) ==
    CHOOSE i \in 1..Len(AllTabs(data)) :
        \E w \in 1..Len(data) :
            i <= Len(data[w].tabs) /\ data[w].tabs[i].id = tab_id

\* The three parts of a title.
IndexPart(tab_id) ==
    IF config.show_tab_index
    THEN str(PositionOf(tab_id)) \o Chars(": ") ELSE <<>>

DirPart(r) == display_dir(WithoutSlashes(r.cwd), config)

CommandPart(tab_id) ==
    IF config.show_commands
       /\ get_running_command(TabOf(tab_id), config) # None
    THEN Chars(" [") \o get_running_command(TabOf(tab_id), config)
         \o Chars("]")
    ELSE <<>>

\* C33: the title of every set-tab-title call is the sanitized form of
\* '<index>: ' (with index display enabled; the index is the position of
\* the tab within its OS window), then display_dir, then ' [<command>]'
\* when command display is enabled and a command was resolved.
C33_TitleFormat ==
    (history.polled /\ ls_result = "ok") =>
        \A r \in ListedTabs :
            \A i \in CallsOf(calls, r.id, "set-tab-title") :
                calls[i].arg =
                    sanitize_title(IndexPart(r.id) \o DirPart(r)
                                       \o CommandPart(r.id),
                                   DefaultTitleLength)

\* The first tab of the second OS window, with the directory name and the
\* command cut to the configured lengths.
C33_Witness ==
    /\ history.polled /\ ls_result = "ok"
    /\ scene = "windows" /\ conf = "short"
    /\ \E i \in CallsOf(calls, IntId(3), "set-tab-title") :
          calls[i].arg = Chars("1: lo... [...]")
    /\ \E i \in CallsOf(calls, IntId(2), "set-tab-title") :
          calls[i].arg = Chars("2: a [...]")

(***************************************************************************)
(* The text functions of core.py, call by call: sanitize_title,            *)
(* _parse_process_command, get_running_command and the directory name of   *)
(* update_tabs, on pools of arguments.                                     *)
(***************************************************************************)

\* The titles and the max_length values sanitize_title is called with.
Titles ==
    { Chars(""), Chars("   "), Chars("\n\t"), Chars("ab"), Chars("a\nb"),
      Chars("  ab"), Chars("untitled"), Chars("abcdefghij") }

TitleLengths == { -1, 0, 2, 5, 8, 9, DefaultTitleLength }

\* Configurations that differ in the lengths and in the letter case of
\* the entries of the filter options (config.py:71-78 keeps the case).
Cut(n) == [DEFAULT_CONFIG EXCEPT !.max_dir_length = n, !.max_cmd_length = n]

LabelConfigs ==
    [ default |-> DEFAULT_CONFIG,
      mixed   |-> [DEFAULT_CONFIG EXCEPT
                      !.ignored_shells    = { Chars("Zsh"), Chars("bash") },
                      !.ignored_commands  = { Chars("Make") },
                      !.ignored_prefixes  = << Chars("Helper-") >>,
                      !.ignored_suffixes  = << Chars("-Daemon") >>,
                      !.priority_commands = { Chars("Vim") }],
      cut0    |-> Cut(0),
      cut2    |-> Cut(2),
      cut3    |-> Cut(3),
      cut5    |-> Cut(5) ]

\* The foreground processes.
Cmd(cmdline) == Proc(12, cmdline)

NodeServer == Cmd(<<Chars("node"), Chars("--inspect"), Chars("server.js")>>)

Vim == Cmd(<<Chars("vim")>>)

Processes ==
    { Shell, Editor, NodeServer, Vim,
      Cmd(<<>>),
      Cmd(<<Chars("ZSH")>>),
      Cmd(<<Chars("/bin/zsh")>>),
      Cmd(<<Chars("make")>>),
      Cmd(<<Chars("MAKE"), Chars("all")>>),
      Cmd(<<Chars("npm")>>),
      Cmd(<<Chars("Npm")>>),
      Cmd(<<Chars("helper-x")>>),
      Cmd(<<Chars("HELPER-x")>>),
      Cmd(<<Chars("x-daemon")>>),
      Cmd(<<Chars("x-Daemon")>>),
      Cmd(<<Chars("Kitty")>>),
      Cmd(<<Chars("python3"), Chars("/srv/main.py")>>),
      Cmd(<<Chars("/opt/bin/longcommandname")>>) }

\* The tabs get_running_command is called with.
CommandTabs ==
    { Tab(IntId(1), windows) :
        windows \in
          { <<>>,
            << Window(Chars("/a"), <<>>) >>,
            << Window(Chars("/a"), <<Shell>>) >>,
            << Window(Chars("/a"), <<Shell, NodeServer, Vim>>) >>,
            << Window(Chars("/a"), <<NodeServer, Cmd(<<Chars("VIM")>>)>>) >>,
            << Window(Chars("/a"), <<Cmd(<<Chars("make")>>), Editor>>) >>,
            << Window(Chars("/a"), <<Shell>>),
               Window(Chars("/a"), <<Editor>>) >>,
            << Window(Chars("/a"), <<>>),
               Window(Chars("/a"), <<Vim>>) >> } }

\* The normalized cwd values whose directory name update_tabs displays.
DirCwds ==
    { Chars("/a"), Chars("/projects/longname"), Chars("/srv/abc"),
      Chars("/srv/abcde"), Chars("relative"), Chars("") }

\* One call of sanitize_title(title, max_length).
SanitizeCall ==
    /\ \E title \in Titles : \E max_length \in TitleLengths :
          call' = [NoCall EXCEPT !.op = "sanitize_title",
                      !.arg = << title, max_length >>,
                      !.result = sanitize_title(title, max_length)]
    /\ UNCHANGED << root, core_vars, daemon_vars, store_vars >>

\* One call of _parse_process_command(process, config).
ParseCall ==
    /\ \E process \in Processes : \E c \in DOMAIN LabelConfigs :
          call' = [NoCall EXCEPT !.op = "parse_process_command",
                      !.arg = << process, c >>,
                      !.result = parse_process_command(process,
                                                       LabelConfigs[c])]
    /\ UNCHANGED << root, core_vars, daemon_vars, store_vars >>

\* One call of get_running_command(tab, config).
CommandCall ==
    /\ \E tab \in CommandTabs : \E c \in DOMAIN LabelConfigs :
          call' = [NoCall EXCEPT !.op = "get_running_command",
                      !.arg = << tab, c >>,
                      !.result = get_running_command(tab, LabelConfigs[c])]
    /\ UNCHANGED << root, core_vars, daemon_vars, store_vars >>

\* The directory name update_tabs displays for a normalized cwd
\* (core.py:388-392).
DirNameCall ==
    /\ \E cwd \in DirCwds : \E c \in DOMAIN LabelConfigs :
          call' = [NoCall EXCEPT !.op = "dir_name",
                      !.arg = << cwd, c >>,
                      !.result = display_dir(cwd, LabelConfigs[c])]
    /\ UNCHANGED << root, core_vars, daemon_vars, store_vars >>

TextInit == NoCycle /\ NoDaemon /\ NoStore /\ NoCalls

TextNext == SanitizeCall \/ ParseCall \/ CommandCall \/ DirNameCall

TextSpec == TextInit /\ [][TextNext]_vars

\* A title the terminal can show: not empty, not blank, printable.
Presentable(title) ==
    /\ title # <<>>
    /\ strip(title) # <<>>
    /\ \A i \in 1..Len(title) : isprintable(title[i])

\* What C34 requires of sanitize_title(title, max_length) = result.
Sanitized(result, max_length) ==
    /\ Presentable(result)
    /\ Len(result) <= max_length
    /\ sanitize_title(result, max_length) = result

\* C34: for every title and every max_length the result of sanitize_title
\* is not empty and not blank, holds printable characters only, is at most
\* max_length characters long, and is a fixed point of sanitize_title.
C34_SanitizeTitle ==
    call.op = "sanitize_title" => Sanitized(call.result, call.arg[2])

\* The same for the lengths that have room for the fallback title: it
\* holds there, the default length included.
C34_SanitizeTitle_Roomy ==
    (call.op = "sanitize_title" /\ call.arg[2] >= Len(Chars("untitled")))
        => Sanitized(call.result, call.arg[2])

\* The result is presentable for every max_length.
C34_SanitizeTitle_Presentable ==
    call.op = "sanitize_title" => Presentable(call.result)

\* The length of the longest argument of a command line.
Widest(cmdline) ==
    IF cmdline = <<>> THEN 0
    ELSE Len(cmdline[CHOOSE i \in 1..Len(cmdline) :
                       \A j \in 1..Len(cmdline) :
                          Len(cmdline[j]) <= Len(cmdline[i])])

\* The label and the directory name before the truncation: what the code
\* computes when the maximum is as long as its input.
FullLabel(process, cfg) ==
    parse_process_command(process,
        [cfg EXCEPT !.max_cmd_length = Widest(process.cmdline)])

FullDir(cwd, cfg) == display_dir(cwd, [cfg EXCEPT !.max_dir_length = Len(cwd)])

\* What C35 requires of the displayed form of a value.
Shortened(full, result, max_length) ==
    IF Len(full) > max_length
    THEN endswith(result, Chars("...")) /\ Len(result) = max_length
    ELSE result = full

LabelShortened ==
    call.op = "parse_process_command"
        => Shortened(FullLabel(call.arg[1], LabelConfigs[call.arg[2]]),
                     call.result,
                     LabelConfigs[call.arg[2]].max_cmd_length)

DirShortened ==
    call.op = "dir_name"
        => Shortened(FullDir(call.arg[1], LabelConfigs[call.arg[2]]),
                     call.result,
                     LabelConfigs[call.arg[2]].max_dir_length)

\* C35: for every configured maximum, a command label or a directory name
\* longer than the maximum is displayed ending with '...' and exactly as
\* long as the maximum; one that is not longer is displayed unchanged.
C35_TruncationLength == LabelShortened /\ DirShortened

\* The same for the maxima that have room for the ellipsis: it holds.
C35_TruncationLength_Roomy ==
    (/\ call.op \in {"parse_process_command", "dir_name"}
     /\ LabelConfigs[call.arg[2]].max_cmd_length >= Len(Chars("..."))
     /\ LabelConfigs[call.arg[2]].max_dir_length >= Len(Chars("...")))
        => C35_TruncationLength

\* A set and a list of names with every letter lowered.
LowerSet(names) == { lower(n) : n \in names }

LowerList(names) == [i \in 1..Len(names) |-> lower(names[i])]

\* A configuration and a process with the letter case taken away from the
\* filter entries and from the process name.
LowerConfig(cfg) ==
    [cfg EXCEPT !.ignored_shells   = LowerSet(cfg.ignored_shells),
                !.ignored_commands = LowerSet(cfg.ignored_commands),
                !.ignored_prefixes = LowerList(cfg.ignored_prefixes),
                !.ignored_suffixes = LowerList(cfg.ignored_suffixes)]

LowerProcess(process) ==
    IF process.cmdline = <<>> THEN process
    ELSE [process EXCEPT !.cmdline[1] = lower(process.cmdline[1])]

\* The basename of the process matches a configured entry, ignoring case.
MatchesEntry(name, cfg) ==
    \/ lower(name) \in LowerSet(cfg.ignored_shells)
    \/ lower(name) \in LowerSet(cfg.ignored_commands)
    \/ \E i \in 1..Len(cfg.ignored_prefixes) :
         startswith(lower(name), lower(cfg.ignored_prefixes[i]))
    \/ \E i \in 1..Len(cfg.ignored_suffixes) :
         endswith(lower(name), lower(cfg.ignored_suffixes[i]))

CaseBlind(process, cfg, result) ==
    /\ (process.cmdline # <<>>
        /\ MatchesEntry(LastSegment(process.cmdline[1]), cfg))
           => result = None
    /\ (result = None)
           <=> (parse_process_command(LowerProcess(process),
                                      LowerConfig(cfg)) = None)

\* C36: _parse_process_command filters a process whose basename equals,
\* ignoring case, a configured shell or ignored command, or begins or ends,
\* ignoring case, with a configured prefix or suffix; whether a process is
\* filtered depends neither on the letter case of its name nor on that of
\* the configured entries.
C36_CaseInsensitive ==
    call.op = "parse_process_command"
        => CaseBlind(call.arg[1], LabelConfigs[call.arg[2]], call.result)

\* The same under the configurations whose set entries are lower case
\* (the defaults are): it holds.
C36_CaseInsensitive_LowerEntries ==
    (/\ call.op = "parse_process_command"
     /\ LET cfg == LabelConfigs[call.arg[2]]
        IN  /\ LowerSet(cfg.ignored_shells) = cfg.ignored_shells
            /\ LowerSet(cfg.ignored_commands) = cfg.ignored_commands)
        => CaseBlind(call.arg[1], LabelConfigs[call.arg[2]], call.result)

\* The labels of the processes that are not filtered, in process order.
Labels(fg_processes, cfg) ==
    LET all == [i \in 1..Len(fg_processes) |->
                   parse_process_command(fg_processes[i], cfg)]
        Shown(label) == label # None
    IN  SelectSeq(all, Shown)

\* The choice C37 describes among the labels of the first window.
Selected(tab, cfg) ==
    IF tab.windows = <<>> THEN None
    ELSE LET labels == Labels(tab.windows[1].foreground_processes, cfg)
             prio   == { i \in 1..Len(labels) :
                           lower(labels[i])
                              \in LowerSet(cfg.priority_commands) }
         IN  IF labels = <<>> THEN None
             ELSE IF prio = {} THEN labels[1]
             ELSE labels[CHOOSE i \in prio : \A j \in prio : i <= j]

\* C37: get_running_command looks at the foreground processes of the
\* tab's first window only; of the labels that are not filtered, in process
\* order, it returns the first that matches the priority set ignoring case,
\* else the first label, else nothing (every process filtered, no window,
\* no process).
C37_CommandSelection ==
    call.op = "get_running_command"
        => call.result = Selected(call.arg[1], LabelConfigs[call.arg[2]])

\* The same under the configurations whose priority entries are lower
\* case (the defaults are): it holds.
C37_CommandSelection_LowerEntries ==
    (/\ call.op = "get_running_command"
     /\ LET cfg == LabelConfigs[call.arg[2]]
        IN  LowerSet(cfg.priority_commands) = cfg.priority_commands)
        => call.result = Selected(call.arg[1], LabelConfigs[call.arg[2]])

(***************************************************************************)
(* The socket cache (core.py:63-98): the cycles with a glob whose matches  *)
(* come and go, each cycle recording its find_kitty_socket call.           *)
(***************************************************************************)

\* What glob.glob('/tmp/kitty-*') may return.
GlobResults ==
    { <<>>, <<"/tmp/kitty-1234">>, <<"/tmp/kitty-5678">>,
      <<"/tmp/kitty-5678", "/tmp/kitty-1234">> }

EndpointScenes == {"a", "two_same"}

EndpointInit ==
    /\ tab_state_cache = <<>>
    /\ tab_input_cache = <<>>
    /\ cached_socket_path = NoSocket
    /\ scene \in EndpointScenes
    /\ conf = "two_colors"
    /\ applied = <<>>
    /\ ls_result = "none"
    /\ calls = <<>>
    /\ changes_made = 0
    /\ raised = FALSE
    /\ history = [ polled |-> FALSE, same |-> FALSE, clean |-> FALSE,
                   changed |-> NoId ]
    /\ NoDaemon
    /\ NoStore
    /\ NoCalls

\* One call of update_tabs() as in UpdateTabs, the glob being whatever the
\* file system holds at that moment; `call` records the find_kitty_socket
\* call of get_kitty_command (core.py:95): the cache it found, the glob
\* and the endpoint it returned.
EndpointCycle ==
    \E ls \in LsResults :
    \E sockets \in GlobResults :
    \E faults \in IF ls = "ok" THEN Faults[scene] ELSE {{}} :
        /\ Outcomes(Cycle(ListTabs(ls), Locals[scene, conf], config, faults,
                          [ state_cache  |-> tab_state_cache,
                            input_cache  |-> tab_input_cache,
                            applied      |-> applied,
                            calls        |-> <<>>,
                            changes_made |-> 0,
                            exc          |-> FALSE ]),
                    ls,
                    IF ListTabs(ls) = "parsed"
                    THEN find_kitty_socket(cached_socket_path, sockets)
                    ELSE NoSocket)
        /\ call' = [NoCall EXCEPT
                       !.op = "find_kitty_socket",
                       !.arg = << cached_socket_path, sockets >>,
                       !.result = find_kitty_socket(cached_socket_path,
                                                    sockets)]
        /\ root' = root

EndpointChange == ChangeTabs(EndpointScenes)

EndpointNext == EndpointCycle \/ EndpointChange

EndpointSpec == EndpointInit /\ [][EndpointNext]_vars

\* find_kitty_socket returned the cached endpoint, and looked for the
\* socket only when none was cached.
Looked ==
    IF cached_socket_path # NoSocket THEN call'.result = cached_socket_path
    ELSE call'.result = (IF call'.arg[2] # <<>> THEN call'.arg[2][1]
                         ELSE NoSocket)

\* A call of the control interface failed in the cycle that ends.
ListingFailed == ls_result' # "ok"

MutationFailed == FailedCalls(calls') # {}

\* C38: find_kitty_socket looks for the socket only when no endpoint is
\* cached and returns the cached one otherwise; a cycle in which a call of
\* the control interface failed, the listing or a set-tab-title or
\* set-tab-color call, ends with the cached endpoint cleared.
C38_EndpointCache ==
    [][history'.polled
         => /\ Looked
            /\ (ListingFailed \/ MutationFailed)
                  => cached_socket_path' = NoSocket]_vars

\* The part that holds: the lookup, a failed listing clears the endpoint,
\* and a cycle whose listing succeeded keeps what the lookup returned.
C38_EndpointCache_Listing ==
    [][history'.polled
         => /\ Looked
            /\ ListingFailed => cached_socket_path' = NoSocket
            /\ ~ListingFailed => cached_socket_path' = call'.result]_vars

\* A cycle with a failed mutation call ends with an endpoint cached.
C38_MutationFailureKeepsEndpoint ==
    /\ history.polled
    /\ FailedCalls(calls) # {}
    /\ cached_socket_path # NoSocket

(***************************************************************************)
(* Properties of the start and the exit of two daemons                     *)
(***************************************************************************)

\* A step of process p on the way to a refusal: run_daemon up to the call
\* of acquire_lock, and acquire_lock up to the RuntimeError (daemon.py:
\* 89-98, 45-54).
StartStep(p) ==
    /\ pc[p] \in {"idle", "exists", "read_text", "kill"}
    /\ pc'[p] \in {"exists", "read_text", "kill", "exited"}
    /\ pc'[p] # pc[p]

\* daemon.pid records `pid`, the pid of a process that is running.
RecordsLive(path, text, pid) ==
    /\ path # NoInode
    /\ int(strip(text[path])) = [ok |-> TRUE, v |-> pid]
    /\ pid \in LivePids

\* C39: a start that is refused because a live instance holds the lock
\* changes nothing: the steps up to the refusal leave the lock file and the
\* side-channel record alone, after the refusal the lock file records the
\* live instance's pid, and the refused process exits with status 1 at
\* once, running no cleanup.
C39_RefusedStart ==
    [][\A p \in DOMAIN pc :
          /\ StartStep(p) => UNCHANGED << lock_path, inode_text, target >>
          /\ Refuses(p)
                => /\ pc'[p] = "exited"
                   /\ exit_status'[p] = 1
                   /\ RecordsLive(lock_path', inode_text', acquire[p].pid)
          /\ acquire[p].outcome = "refused" => pc'[p] = "exited"]_vars

\* A refused process has exited beside the live instance whose pid the lock
\* file records, and the side-channel record is still there.
C39_Witness ==
    \E p, q \in DOMAIN pc :
        /\ acquire[p].outcome = "refused"
        /\ pc[p] = "exited"
        /\ exit_status[p] = 1
        /\ pc[q] \notin {"idle", "exited"}
        /\ Records(lock_path, inode_text, q)
        /\ target.exists

\* The cleanup of process p removes daemon.pid (daemon.py:75).
CleanupRemoves(p) ==
    /\ pc[p] = "cleanup_unlink"
    /\ pc'[p] = "exited"
    /\ lock_path # NoInode
    /\ lock_path' = NoInode

\* C40: the cleanup that acquire_lock registers removes the lock file only
\* when the file records the pid of the exiting process; a lock file that
\* records another pid is never removed by it, however the starts and the
\* exits of two instances interleave.
C40_CleanupOwnLock ==
    [][\A p \in DOMAIN pc :
          CleanupRemoves(p) => Records(lock_path, inode_text, p)]_vars

\* What holds is the test, not the removal: the cleanup goes on to the
\* unlink only when the text it has just read is its own pid.
C40_CleanupTest ==
    [][\A p \in DOMAIN pc :
          (pc[p] = "cleanup_read_text" /\ pc'[p] = "cleanup_unlink")
             => Records(lock_path, inode_text, p)]_vars

\* The cleanup of one instance has removed the lock file that recorded the
\* pid of the other, which is running.
C40_ForeignLockRemoved ==
    \E p, q \in DOMAIN pc :
        /\ p # q
        /\ pc[p] = "exited"
        /\ acquire[p].outcome = "acquired"
        /\ lock_path = NoInode
        /\ pc[q] \in {"chmod", "setup", "while", "sleep"}
        /\ int(strip(inode_text[acquire[q].fd])) = [ok |-> TRUE, v |-> Pid(q)]

====
